---- MODULE Spec2Model ----
(***************************************************************************)
(* haxorport-go-client: the WebSocket session transport (Client), the      *)
(* WebSocket tunnel registry (TunnelRepository), the Direct-TCP tunnel     *)
(* (DirectTunnel, directTunnelRepository) and the http / tcp commands that *)
(* drive them, as one state machine.                                       *)
(*                                                                         *)
(* Goroutines are processes with a program counter.  A critical section of *)
(* Client.mutex is one atomic step; mutexHeld records a goroutine that     *)
(* blocks inside its own critical section (sync.Mutex is not reentrant),   *)
(* after which no other critical section can start.                        *)
(***************************************************************************)
EXTENDS Integers, Sequences, FiniteSets, TLC

\* ----------------------------------------------------------------- bounds
MaxSessions == 2      \* WebSocket dials that the server accepts
MaxClock == 2         \* wall-clock milliseconds that pass
MaxChunks == 3        \* reads of the local service that return data
MaxInbound == 2       \* data frames the server sends
MaxLocal == 2         \* local sockets the registry dials successfully
MaxStarts == 2        \* calls of Start on one tunnel
MaxCount == 2         \* saturation of the call counters
MaxReplies == 1       \* register / error frames the server sends
PayloadLen == 2       \* bytes of a data payload the server sends
MaxRpcs == 2          \* register RPCs that a caller issues one after another
MaxBody == 3          \* tokens of an HTML body
MaxPasses == 2        \* applications of the HTML rewriter
MaxWriteFaults == 6   \* writes to a local socket that time out

\* ---------------------------------------------------- program constants
maxRetries == 5           \* part_001:28, and the literal 5 of part_001:281,555,659
SendDataMaxRetries == 3   \* client.go:406

Socks == 1..MaxSessions
Locals == 1..MaxLocal
Chunks == 1..MaxChunks
ConnIds == {"c1"}
TunnelId == "t1"
TunnelIds == {TunnelId, "t2"}   \* "t2" is never registered

VARIABLES
    \* command line and configuration
    cmd, config, userPort, repoKind, mainPc, exited, exitReason, tcpUserData,
    authResponse, tunnelConfig,
    \* environment
    tokenValid, quota, clock, broken, inbox, sentData, regAnswered, regSock,
    writeFaults,
    \* Client
    conn, isConnected, reconnecting, mutexHeld, userData, handlers,
    nextSock, closedSocks, wire, pump, crashed,
    supPc, kaPc, kaTs, pings,
    \* register RPC
    regTs, responseCh, errCh,
    \* TunnelRepository
    tunnels, tunnelInfo, regType, connections, nextLocal, localOpen, localWritten,
    fwd, snd, fwdErrCh,
    \* history
    validations, net, supRejected, supAfterReject, accepted, connSession, dials,
    failedSocks,
    \* DirectTunnel and directTunnelRepository
    dtMutex, dtListener, dtConnection, remotePort, configPort, tunnelRecPort,
    callbackSet, callbackCalls, dtReply, dtRequested, dtActual,
    ctlPc, ctlActual, ctlRounds, stopped, stopCh, controlConn, served,
    \* HTML rewriting of the HTTP proxy
    html,
    \* TunnelService
    closeId, ctlLog, targetAddr, localPort, oldTasks, starts, localRequest

cmdVars == <<cmd, config, userPort, repoKind, mainPc, exited, exitReason, tcpUserData,
            authResponse, tunnelConfig>>
envVars == <<tokenValid, quota, clock, broken, inbox, sentData, regAnswered, regSock,
            writeFaults>>
clientVars == <<conn, isConnected, reconnecting, mutexHeld, userData, handlers,
                nextSock, closedSocks, wire, pump, crashed, supPc, kaPc, kaTs, pings>>
rpcVars == <<regTs, responseCh, errCh>>
repoVars == <<tunnels, tunnelInfo, regType, connections, nextLocal, localOpen, localWritten,
              fwd, snd, fwdErrCh>>
histVars == <<validations, net, supRejected, supAfterReject, accepted, connSession, dials,
             failedSocks>>
dtVars == <<dtMutex, dtListener, dtConnection, remotePort, configPort, tunnelRecPort,
            callbackSet, callbackCalls, dtReply, dtRequested, dtActual,
            ctlPc, ctlActual, ctlRounds, stopped, stopCh, controlConn, served,
            html, closeId, ctlLog, targetAddr, localPort, oldTasks, starts, localRequest>>

vars == <<cmdVars, envVars, clientVars, rpcVars, repoVars, histVars, dtVars>>

Inc(n) == IF n < MaxCount THEN n + 1 ELSE n

\* --------------------------------------------------------------- messages
\* model.NewMessage: the timestamp is the wall clock at creation.
NewMessage(type) == [type |-> type, ts |-> clock]

\* A frame as written to socket s.  cid, ls and chunk are set on data frames;
\* id, status and error are set on http_response frames.
Frame(s, msg, cid, ls, chunk) ==
    [sock |-> s, type |-> msg.type, ts |-> msg.ts, cid |-> cid, ls |-> ls, chunk |-> chunk,
     id |-> 0, status |-> 0, error |-> ""]

\* NewHTTPResponseMessage(response) as written to socket s.
HTTPResponseFrame(s, response) ==
    [Frame(s, NewMessage("http_response"), "", 0, 0) EXCEPT
        !.id = response.id, !.status = response.status, !.error = response.error]

\* Client.userData before a validation has stored the user's data.
NilUser == [set |-> FALSE, reached |-> FALSE, used |-> 0, limit |-> 0]

NoPump == [pc |-> "none", sock |-> 0, cid |-> "", data |-> <<>>, ls |-> 0, attempt |-> 0,
           req |-> 0, outcome |-> ""]

\* ------------------------------------------------------------ Client core
\* Client.Close: a no-op when the client is not connected, else closes the
\* current socket.
CloseEffect ==
    IF ~isConnected
    THEN UNCHANGED <<conn, isConnected, closedSocks>>
    ELSE /\ closedSocks' = IF conn # 0 THEN closedSocks \cup {conn} ELSE closedSocks
         /\ conn' = 0
         /\ isConnected' = FALSE

\* What sendMessage stores in isConnected when WriteMessage failed.
WriteFailedStaysConnected == TRUE
WriteFailed == FALSE

\* Client.sendMessage, one critical section, with the frame that the message
\* makes on the socket.  res is what the caller gets.  A write fails exactly
\* when the peer is gone.
sendFrame(frame, res) ==
    /\ mutexHeld = "free"
    /\ IF ~isConnected \/ conn = 0
       THEN /\ res = "notconn"
            /\ UNCHANGED <<wire, isConnected, failedSocks>>
       ELSE IF conn \in broken
       THEN /\ res = "werr"
            /\ isConnected' = WriteFailed
            /\ failedSocks' = failedSocks \cup {conn}
            /\ UNCHANGED wire
       ELSE /\ res = "sent"
            /\ wire' = Append(wire, frame)
            /\ UNCHANGED <<isConnected, failedSocks>>
    /\ UNCHANGED conn

sendMessage(msg, cid, ls, chunk, res) == sendFrame(Frame(conn, msg, cid, ls, chunk), res)

SendResults == {"notconn", "werr", "sent"}

ConnectOutcomes == {"already", "neterr", "rejected", "dialfail", "authfail", "ok"}
ConnectFailed(out) == out \in {"neterr", "rejected", "dialfail"}

\* Client.Connect called by goroutine `caller`; `out` is how the attempt ends.
\* With "authfail" the socket is open, isConnected is set and the caller calls
\* Close while it holds the mutex: it never returns.
Connect(caller, out) ==
    /\ mutexHeld = "free"
    /\ LET validates == config.AuthEnabled /\ config.AuthToken # "" IN
       IF isConnected
       THEN /\ out = "already"
            /\ UNCHANGED <<conn, isConnected, mutexHeld, userData, nextSock, wire,
                           pump, validations, net>>
       ELSE /\ out # "already"
            /\ out \in {"neterr", "rejected"} => validates
            /\ (validates /\ ~tokenValid) => out \in {"neterr", "rejected"}
            /\ out = "rejected" => ~tokenValid
            /\ out \in {"authfail", "ok"} => nextSock < MaxSessions
            /\ out = "authfail" => config.AuthEnabled
            /\ validations' = IF validates THEN Inc(validations) ELSE validations
            /\ net' = net \cup (IF validates THEN {"validate"} ELSE {})
                          \cup (IF out \in {"dialfail", "authfail", "ok"}
                                THEN {"ws_dial"} ELSE {})
                          \cup (IF out \in {"authfail", "ok"} /\ config.AuthEnabled
                                THEN {"ws_frame"} ELSE {})
            /\ userData' = IF validates /\ ~(out \in {"neterr", "rejected"})
                           THEN quota ELSE userData
            /\ IF out \in {"authfail", "ok"}
               THEN /\ nextSock' = nextSock + 1
                    /\ conn' = nextSock + 1
                    /\ isConnected' = TRUE
               ELSE UNCHANGED <<nextSock, conn, isConnected>>
            /\ mutexHeld' = IF out = "authfail" THEN caller ELSE mutexHeld
            /\ wire' = IF out = "ok" /\ config.AuthEnabled
                       THEN Append(wire, Frame(nextSock + 1, NewMessage("auth"), "", 0, 0))
                       ELSE wire
            /\ pump' = IF out = "ok"
                       THEN [pump EXCEPT ![nextSock + 1] =
                                [NoPump EXCEPT !.pc = "read", !.sock = nextSock + 1]]
                       ELSE pump

Running == exited = "running" /\ ~crashed

\* os.Exit(1) of a command, with the message it prints.
Exit(reason) == exited' = "exit1" /\ mainPc' = "exited" /\ exitReason' = reason
Goto(pc) == mainPc' = pc /\ UNCHANGED <<exited, exitReason>>

\* ------------------------------------------------------ httpCmd.Run (main)
\* The token check of httpCmd.Run.
HttpRun ==
    /\ Running
    /\ UNCHANGED dtVars
    /\ cmd = "http" /\ mainPc = "run"
    /\ IF config.AuthEnabled /\ config.AuthToken = ""
       THEN Exit("no_token")
       ELSE Goto("connect")
    /\ UNCHANGED <<cmd, config, userPort, repoKind, tcpUserData, authResponse, envVars, clientVars, rpcVars, repoVars, histVars, tunnelConfig>>

\* "Ensure client is available and connected (only for WebSocket mode)".
HttpConnect ==
    /\ Running
    /\ UNCHANGED dtVars
    /\ cmd = "http" /\ mainPc = "connect"
    /\ IF config.ConnectionMode = "websocket"
       THEN \E out \in ConnectOutcomes :
               /\ Connect("main", out)
               /\ IF ConnectFailed(out)
                  THEN Exit("connect")
                  ELSE Goto(IF out = "authfail" THEN "blocked" ELSE "limit")
       ELSE /\ Goto("limit")
            /\ UNCHANGED <<conn, isConnected, mutexHeld, userData, nextSock,
                           wire, pump, validations, net>>
    /\ UNCHANGED <<cmd, config, userPort, repoKind, tcpUserData, authResponse, envVars, reconnecting, handlers, closedSocks, crashed,
                   supPc, kaPc, kaTs, pings, rpcVars, repoVars,
                   supRejected, supAfterReject, accepted, connSession, dials,
                   failedSocks, tunnelConfig>>

\* Client.CheckTunnelLimit.
CheckTunnelLimit ==
    IF ~userData.set THEN FALSE
    ELSE userData.reached \/ userData.used >= userData.limit

\* The user-data and quota checks, then the connection-mode check.
HttpCheckLimit ==
    /\ Running
    /\ UNCHANGED dtVars
    /\ cmd = "http" /\ mainPc = "limit"
    /\ LET checked == config.AuthEnabled /\ config.ConnectionMode = "websocket" IN
       IF checked /\ ~userData.set THEN Exit("unvalidated")
       ELSE IF checked /\ CheckTunnelLimit THEN Exit("quota")
       ELSE IF config.ConnectionMode # "websocket" THEN Exit("mode")
       ELSE Goto("rwr")
    /\ UNCHANGED <<cmd, config, userPort, repoKind, tcpUserData, authResponse, envVars, clientVars, rpcVars, repoVars, histVars, tunnelConfig>>

\* Client.RunWithReconnect: starts the reconnect supervisor and the keepalive
\* ticker unless they already run.
RunWithReconnect ==
    /\ Running
    /\ UNCHANGED dtVars
    /\ mainPc = "rwr"
    /\ mutexHeld = "free"
    /\ IF reconnecting
       THEN UNCHANGED <<reconnecting, supPc, kaPc>>
       ELSE /\ reconnecting' = TRUE
            /\ supPc' = "loop"
            /\ kaPc' = "tick"
    /\ Goto("register")
    /\ UNCHANGED <<cmd, config, userPort, repoKind, tcpUserData, authResponse, envVars, conn, isConnected, mutexHeld, userData,
                   handlers, nextSock, closedSocks, wire, pump, crashed, kaTs, pings,
                   rpcVars, repoVars, histVars, tunnelConfig>>

\* The supervisor goroutine of RunWithReconnect: one iteration that finds the
\* client not connected and calls Connect.
SupervisorReconnect ==
    /\ Running
    /\ UNCHANGED dtVars
    /\ supPc = "loop"
    /\ mutexHeld = "free"
    /\ ~isConnected
    /\ \E out \in ConnectOutcomes :
          /\ Connect("supervisor", out)
          /\ supPc' = IF out = "authfail" THEN "blocked" ELSE "loop"
          /\ supRejected' = (supRejected \/ out = "rejected")
          /\ supAfterReject' = IF supRejected THEN Inc(supAfterReject) ELSE supAfterReject
    /\ UNCHANGED <<cmdVars, envVars, reconnecting, handlers, closedSocks, crashed,
                   kaPc, kaTs, pings, rpcVars, repoVars, accepted, connSession, dials,
                   failedSocks>>

\* The same call of Connect in two steps, for the senders that run while it
\* is in progress.  Connect keeps c.mutex from its first line to its return.
ConnectReleasesMutex(caller) == "free"
ConnectHoldsMutex(caller) == caller

\* First step: the token validation and the dial; on success c.conn and
\* isConnected are set and the auth message is yet to be written.
SupervisorConnectDial ==
    /\ Running
    /\ UNCHANGED dtVars
    /\ supPc = "loop"
    /\ mutexHeld = "free"
    /\ ~isConnected
    /\ LET validates == config.AuthEnabled /\ config.AuthToken # "" IN
       \E out \in {"neterr", "rejected", "dialfail", "opened"} :
          /\ out \in {"neterr", "rejected"} => validates
          /\ (validates /\ ~tokenValid) => out \in {"neterr", "rejected"}
          /\ out = "rejected" => ~tokenValid
          /\ out = "opened" => nextSock < MaxSessions
          /\ validations' = IF validates THEN Inc(validations) ELSE validations
          /\ net' = net \cup (IF validates THEN {"validate"} ELSE {})
                        \cup (IF out \in {"dialfail", "opened"} THEN {"ws_dial"} ELSE {})
          /\ userData' = IF validates /\ ~(out \in {"neterr", "rejected"})
                         THEN quota ELSE userData
          /\ supRejected' = (supRejected \/ out = "rejected")
          /\ supAfterReject' = IF supRejected THEN Inc(supAfterReject) ELSE supAfterReject
          /\ IF out = "opened"
             THEN /\ nextSock' = nextSock + 1
                  /\ conn' = nextSock + 1
                  /\ isConnected' = TRUE
                  /\ mutexHeld' = ConnectHoldsMutex("supervisor")
                  /\ supPc' = "auth"
             ELSE UNCHANGED <<nextSock, conn, isConnected, mutexHeld, supPc>>
    /\ UNCHANGED <<cmdVars, envVars, reconnecting, handlers, closedSocks, wire, pump, crashed,
                   kaPc, kaTs, pings, rpcVars, repoVars, accepted, connSession, dials,
                   failedSocks>>

\* Second step: the auth message is written (when auth is enabled) and the
\* read pump is started; a failed write calls Close under the mutex that
\* Connect holds, and Connect never returns.
SupervisorConnectAuth ==
    /\ Running
    /\ UNCHANGED dtVars
    /\ supPc = "auth"
    /\ \E out \in {"authfail", "ok"} :
          /\ out = "authfail" => config.AuthEnabled
          /\ IF out = "ok"
             THEN /\ wire' = IF config.AuthEnabled
                             THEN Append(wire, Frame(conn, NewMessage("auth"), "", 0, 0))
                             ELSE wire
                  /\ net' = net \cup (IF config.AuthEnabled THEN {"ws_frame"} ELSE {})
                  /\ pump' = [pump EXCEPT ![conn] = [NoPump EXCEPT !.pc = "read", !.sock = conn]]
                  /\ mutexHeld' = "free"
                  /\ supPc' = "loop"
             ELSE /\ mutexHeld' = "supervisor"
                  /\ supPc' = "blocked"
                  /\ net' = net \cup {"ws_frame"}
                  /\ UNCHANGED <<wire, pump>>
    /\ UNCHANGED <<cmdVars, envVars, conn, isConnected, reconnecting, userData, handlers,
                   nextSock, closedSocks, crashed, kaPc, kaTs, pings, rpcVars, repoVars,
                   validations, supRejected, supAfterReject, accepted, connSession, dials,
                   failedSocks>>

\* The keepalive goroutine: a tick that finds the client connected creates a
\* ping message ...
KeepaliveNewMessage ==
    /\ Running
    /\ UNCHANGED dtVars
    /\ kaPc = "tick"
    /\ mutexHeld = "free"
    /\ isConnected
    /\ pings < MaxCount
    /\ kaTs' = clock
    /\ kaPc' = "send"
    /\ pings' = pings + 1
    /\ UNCHANGED <<cmdVars, envVars, conn, isConnected, reconnecting, mutexHeld, userData,
                   handlers, nextSock, closedSocks, wire, pump, crashed, supPc,
                   rpcVars, repoVars, histVars>>

\* ... sends it ...
KeepaliveSend ==
    /\ Running
    /\ UNCHANGED dtVars
    /\ kaPc = "send"
    /\ \E res \in SendResults :
          /\ sendMessage([type |-> "ping", ts |-> kaTs], "", 0, 0, res)
          /\ kaPc' = IF res = "sent" THEN "tick" ELSE "close"
    /\ UNCHANGED <<cmdVars, envVars, reconnecting, mutexHeld, userData, handlers,
                   nextSock, closedSocks, pump, crashed, supPc, kaTs, pings,
                   rpcVars, repoVars, validations, net, supRejected, supAfterReject, accepted, connSession, dials>>

\* ... and calls Close when the send failed.
KeepaliveClose ==
    /\ Running
    /\ UNCHANGED dtVars
    /\ kaPc = "close"
    /\ mutexHeld = "free"
    /\ CloseEffect
    /\ kaPc' = "tick"
    /\ UNCHANGED <<cmdVars, envVars, reconnecting, mutexHeld, userData, handlers,
                   nextSock, wire, pump, crashed, supPc, kaTs, pings,
                   rpcVars, repoVars, histVars>>

\* ------------------------------------- TunnelRepository.Register (WebSocket)
\* "Ensure the client is connected".
RegEnsureConnected ==
    /\ Running
    /\ UNCHANGED dtVars
    /\ mainPc = "register"
    /\ \E out \in ConnectOutcomes :
          /\ Connect("main", out)
          /\ IF ConnectFailed(out)
             THEN Exit("create")
             ELSE Goto(IF out = "authfail" THEN "blocked" ELSE "reg_install")
    /\ UNCHANGED <<cmd, config, userPort, repoKind, tcpUserData, authResponse, envVars, reconnecting, handlers, closedSocks, crashed,
                   supPc, kaPc, kaTs, pings, rpcVars, repoVars,
                   supRejected, supAfterReject, accepted, connSession, dials,
                   failedSocks, tunnelConfig>>

\* The next iteration of the read loop evaluates c.conn again; on a nil
\* connection ReadMessage panics and the process dies.
PumpLoop(p) == [NoPump EXCEPT !.pc = IF conn = 0 THEN "panic" ELSE "read", !.sock = conn]

\* TunnelRepository.Register: the record made from the response.  NewTunnel
\* leaves URL and RemotePort empty; SetHTTPInfo stores the URL of the response
\* for an HTTP tunnel, SetTCPInfo its remote port for a TCP tunnel.
NoTunnel == [type |-> "", url |-> <<>>, remotePort |-> 0]
TunnelTypes == {"http", "tcp"}
TunnelWithoutInfo(type, response) == [type |-> type, url |-> <<>>, remotePort |-> 0]
TunnelFromResponse(type, response) ==
    [type |-> type,
     url |-> IF type = "http" THEN response.url ELSE <<>>,
     remotePort |-> IF type = "tcp" THEN response.port ELSE 0]

\* The read pumps whose handler is blocked in its send on the response
\* channel (kind "register") or on the error channel (kind "error").
Senders(kind) ==
    {p \in Socks : pump[p].pc = "blocked" /\ (pump[p].outcome = "error") = (kind = "error")}

\* New channels are made: a handler blocked on a channel of the call before
\* has no receiver any more.
Abandoned == [p \in Socks |-> IF pump[p].pc = "blocked"
                               THEN [pump[p] EXCEPT !.pc = "stuck"] ELSE pump[p]]

\* A receive from the response channel or the error channel: the buffered
\* value is taken, and the send of a blocked handler, if there is one,
\* completes and its pump goes on.
ReceiveResponse ==
    IF Senders("register") = {}
    THEN responseCh' = Tail(responseCh) /\ UNCHANGED <<pump, crashed>>
    ELSE \E p \in Senders("register") :
            /\ responseCh' = Append(Tail(responseCh),
                                    [success |-> pump[p].outcome = "success",
                                     req |-> pump[p].req, url |-> pump[p].data[1],
                                     port |-> pump[p].data[2]])
            /\ pump' = [pump EXCEPT ![p] = PumpLoop(p)]
            /\ crashed' = (\E q \in Socks : pump'[q].pc = "panic")

ReceiveError ==
    IF Senders("error") = {}
    THEN errCh' = Tail(errCh) /\ UNCHANGED <<pump, crashed>>
    ELSE \E p \in Senders("error") :
            /\ errCh' = Append(Tail(errCh), "error")
            /\ pump' = [pump EXCEPT ![p] = PumpLoop(p)]
            /\ crashed' = (\E q \in Socks : pump'[q].pc = "panic")

\* Client.SendRegisterTunnel: fresh channels, then the register and error
\* handlers are installed.
RegInstall ==
    /\ Running
    /\ UNCHANGED dtVars
    /\ mainPc = "reg_install"
    /\ mutexHeld = "free"
    /\ handlers' = handlers \cup {"register", "error"}
    /\ responseCh' = <<>>
    /\ errCh' = <<>>
    /\ pump' = Abandoned
    /\ Goto("reg_new")
    /\ UNCHANGED <<cmd, config, userPort, repoKind, tcpUserData, authResponse, envVars, conn, isConnected, reconnecting, mutexHeld,
                   userData, nextSock, closedSocks, wire, crashed, supPc, kaPc, kaTs,
                   pings, regTs, repoVars, histVars, tunnelConfig>>

RegNewMessage ==
    /\ Running
    /\ UNCHANGED dtVars
    /\ mainPc = "reg_new"
    /\ regTs' = clock
    /\ Goto("reg_send")
    /\ UNCHANGED <<cmd, config, userPort, repoKind, tcpUserData, authResponse, envVars, clientVars, responseCh, errCh, repoVars,
                   histVars, tunnelConfig>>

RegSend ==
    /\ Running
    /\ UNCHANGED dtVars
    /\ mainPc = "reg_send"
    /\ \E res \in SendResults :
          /\ sendMessage([type |-> "register", ts |-> regTs], "", 0, 0, res)
          /\ IF res = "sent" THEN Goto("reg_wait") ELSE Exit("create")
    /\ UNCHANGED <<cmd, config, userPort, repoKind, tcpUserData, authResponse, envVars, reconnecting, mutexHeld, userData, handlers,
                   nextSock, closedSocks, pump, crashed, supPc, kaPc, kaTs, pings,
                   rpcVars, repoVars, validations, net, supRejected, supAfterReject, accepted, connSession, dials, tunnelConfig>>

\* The select of SendRegisterTunnel, then the rest of Register: a successful
\* response stores the tunnel.
RegWait ==
    /\ Running
    /\ UNCHANGED dtVars
    /\ mainPc = "reg_wait"
    /\ \/ /\ responseCh # <<>>
          /\ ReceiveResponse
          /\ IF Head(responseCh).success
             THEN /\ tunnels' = tunnels \cup {TunnelId}
                  /\ tunnelInfo' = TunnelFromResponse(regType, Head(responseCh))
                  /\ Goto("serving")
             ELSE /\ Exit("create") /\ UNCHANGED <<tunnels, tunnelInfo>>
          /\ UNCHANGED errCh
       \/ /\ errCh # <<>>
          /\ ReceiveError
          /\ Exit("create")
          /\ UNCHANGED <<responseCh, tunnels, tunnelInfo>>
       \/ /\ Exit("create")     \* time.After(10 s)
          /\ UNCHANGED <<responseCh, errCh, tunnels, tunnelInfo, pump, crashed>>
    /\ UNCHANGED <<cmd, config, userPort, repoKind, tcpUserData, authResponse, envVars,
                   conn, isConnected, reconnecting, mutexHeld, userData, handlers,
                   nextSock, closedSocks, wire, supPc, kaPc, kaTs, pings, regTs, connections, nextLocal,
                   localOpen, localWritten, fwd, snd, fwdErrCh, histVars, regType, tunnelConfig>>

\* ------------------------------------ TunnelRepository.Register, called
\* again by a caller that got an error from the call before.
\* "Ensure the client is connected": it is, so Connect is not called.
ApiRegister ==
    /\ Running
    /\ UNCHANGED dtVars
    /\ mainPc = "api_idle"
    /\ Cardinality({i \in 1..Len(wire) : wire[i].type = "register"}) < MaxRpcs
    /\ mutexHeld = "free"
    /\ isConnected
    /\ Goto("api_install")
    /\ UNCHANGED <<cmd, config, userPort, repoKind, tcpUserData, authResponse, envVars,
                   clientVars, rpcVars, repoVars, histVars, tunnelConfig>>

\* Register is called while the client is not connected: "Ensure the client
\* is connected" calls Connect, and a failure of Connect is returned.
ApiRegConnect ==
    /\ Running
    /\ UNCHANGED dtVars
    /\ mainPc = "api_idle"
    /\ Cardinality({i \in 1..Len(wire) : wire[i].type = "register"}) < MaxRpcs
    /\ ~isConnected
    /\ \E out \in ConnectOutcomes :
          /\ Connect("main", out)
          /\ Goto(IF ConnectFailed(out) THEN "api_idle"
                  ELSE IF out = "authfail" THEN "blocked" ELSE "api_install")
    /\ UNCHANGED <<cmd, config, userPort, repoKind, tcpUserData, authResponse, envVars,
                   reconnecting, handlers, closedSocks, crashed, supPc, kaPc, kaTs, pings,
                   rpcVars, repoVars, supRejected, supAfterReject, accepted, connSession,
                   dials, failedSocks, tunnelConfig>>

\* SendRegisterTunnel: fresh channels, and the handlers of this call replace
\* the handlers of the call before.
ApiRegInstall ==
    /\ Running
    /\ UNCHANGED dtVars
    /\ mainPc = "api_install"
    /\ mutexHeld = "free"
    /\ handlers' = handlers \cup {"register", "error"}
    /\ responseCh' = <<>>
    /\ errCh' = <<>>
    /\ regTs' = clock
    /\ pump' = Abandoned
    /\ Goto("api_send")
    /\ UNCHANGED <<cmd, config, userPort, repoKind, tcpUserData, authResponse, envVars, conn,
                   isConnected, reconnecting, mutexHeld, userData, nextSock, closedSocks,
                   wire, crashed, supPc, kaPc, kaTs, pings, repoVars, histVars, tunnelConfig>>

\* SendRegisterTunnel: the register message is sent; a failed send is
\* returned to the caller.
ApiRegSend ==
    /\ Running
    /\ UNCHANGED dtVars
    /\ mainPc = "api_send"
    /\ \E res \in SendResults :
          /\ sendMessage([type |-> "register", ts |-> regTs], "", 0, 0, res)
          /\ Goto(IF res = "sent" THEN "api_wait" ELSE "api_idle")
    /\ UNCHANGED <<cmd, config, userPort, repoKind, tcpUserData, authResponse, envVars,
                   reconnecting, mutexHeld, userData, handlers, nextSock, closedSocks, pump,
                   crashed, supPc, kaPc, kaTs, pings, rpcVars, repoVars, validations, net,
                   supRejected, supAfterReject, accepted, connSession, dials, tunnelConfig>>

\* SendRegisterTunnel: the select.  A response with success stores the
\* tunnel; everything else, the timeout included, is an error for the caller.
ApiRegWait ==
    /\ Running
    /\ UNCHANGED dtVars
    /\ mainPc = "api_wait"
    /\ \/ /\ responseCh # <<>>
          /\ ReceiveResponse
          /\ tunnels' = IF Head(responseCh).success THEN tunnels \cup {TunnelId} ELSE tunnels
          /\ tunnelInfo' = IF Head(responseCh).success
                           THEN TunnelFromResponse(regType, Head(responseCh))
                           ELSE tunnelInfo
          /\ UNCHANGED errCh
       \/ /\ errCh # <<>>
          /\ ReceiveError
          /\ UNCHANGED <<responseCh, tunnels, tunnelInfo>>
       \/ UNCHANGED <<responseCh, errCh, tunnels, tunnelInfo, pump, crashed>>     \* time.After(10 s)
    /\ Goto("api_idle")
    /\ UNCHANGED <<cmd, config, userPort, repoKind, tcpUserData, authResponse, envVars,
                   conn, isConnected, reconnecting, mutexHeld, userData, handlers,
                   nextSock, closedSocks, wire, supPc, kaPc, kaTs, pings, regTs, connections, nextLocal, localOpen, localWritten, fwd,
                   snd, fwdErrCh, histVars, regType, tunnelConfig>>

\* ------------------------------- TunnelRepository.Unregister (WebSocket)
\* Unregister(id) is called for a registered tunnel: "Ensure the client is
\* connected".
ApiUnregister ==
    /\ Running
    /\ UNCHANGED dtVars
    /\ mainPc = "api_idle"
    /\ TunnelId \in tunnels
    /\ mutexHeld = "free"
    /\ Goto(IF isConnected THEN "unreg_send" ELSE "unreg_connect")
    /\ UNCHANGED <<cmd, config, userPort, repoKind, tcpUserData, authResponse, envVars,
                   clientVars, rpcVars, repoVars, histVars, tunnelConfig>>

\* TunnelService.CloseTunnel: GetByID fails for an id the repository does not
\* hold and the error is returned; otherwise the Unregister of the repository
\* is called and its result is returned.
CloseTunnel(id) ==
    /\ Running
    /\ mainPc = "api_idle"
    /\ closeId = ""
    /\ closeId' = id
    /\ IF id \notin tunnels
       THEN Goto("close_notfound")
       ELSE /\ mutexHeld = "free"
            /\ Goto(IF isConnected THEN "unreg_send" ELSE "unreg_connect")
    /\ UNCHANGED <<cmd, config, userPort, repoKind, tcpUserData, authResponse, envVars,
                   clientVars, rpcVars, repoVars, histVars,
                   dtMutex, dtListener, dtConnection, remotePort, configPort, tunnelRecPort,
                   callbackSet, callbackCalls, dtReply, dtRequested, dtActual,
                   ctlPc, ctlActual, ctlRounds, html, stopped, stopCh, controlConn, served, ctlLog, tunnelConfig, targetAddr, localPort, oldTasks, starts, localRequest>>

\* The Connect of Unregister; its failure is returned to the caller.
UnregConnect ==
    /\ Running
    /\ UNCHANGED dtVars
    /\ mainPc = "unreg_connect"
    /\ \E out \in ConnectOutcomes :
          /\ Connect("main", out)
          /\ Goto(IF ConnectFailed(out) THEN "unreg_returned"
                  ELSE IF out = "authfail" THEN "blocked" ELSE "unreg_send")
    /\ UNCHANGED <<cmd, config, userPort, repoKind, tcpUserData, authResponse, envVars,
                   reconnecting, handlers, closedSocks, crashed, supPc, kaPc, kaTs, pings,
                   rpcVars, repoVars, supRejected, supAfterReject, accepted, connSession,
                   dials, failedSocks, tunnelConfig>>

\* SendUnregisterTunnel; its failure is returned to the caller.
UnregSend ==
    /\ Running
    /\ UNCHANGED dtVars
    /\ mainPc = "unreg_send"
    /\ \E res \in SendResults :
          /\ sendMessage(NewMessage("unregister"), "", 0, 0, res)
          /\ Goto(IF res = "sent" THEN "unreg_delete" ELSE "unreg_returned")
    /\ UNCHANGED <<cmd, config, userPort, repoKind, tcpUserData, authResponse, envVars,
                   reconnecting, mutexHeld, userData, handlers, nextSock, closedSocks, pump,
                   crashed, supPc, kaPc, kaTs, pings, rpcVars, repoVars, validations, net,
                   supRejected, supAfterReject, accepted, connSession, dials, tunnelConfig>>

\* The record is deleted and Unregister returns nil.
UnregDelete ==
    /\ Running
    /\ UNCHANGED dtVars
    /\ mainPc = "unreg_delete"
    /\ tunnels' = tunnels \ {TunnelId}
    /\ tunnelInfo' = NoTunnel
    /\ Goto("unreg_returned")
    /\ UNCHANGED <<cmd, config, userPort, repoKind, tcpUserData, authResponse, envVars,
                   clientVars, rpcVars, connections, nextLocal, localOpen, localWritten, fwd,
                   snd, fwdErrCh, histVars, regType, tunnelConfig>>

\* --------------------------------------------------------- Client.readPump
\* When c.conn.ReadMessage() returns an error: the peer is gone or the socket
\* was closed.  No read deadline is set, so silence of the peer is no error.
ReadFailsWhenIdle(s) == TRUE
ReadFails(s) == s \in broken \cup closedSocks

\* ReadMessage fails: the loop ends and the deferred Close runs.
PumpReadError(p) ==
    /\ Running
    /\ UNCHANGED dtVars
    /\ pump[p].pc = "read"
    /\ ReadFails(pump[p].sock)
    /\ mutexHeld = "free"
    /\ CloseEffect
    /\ pump' = [pump EXCEPT ![p] = [NoPump EXCEPT !.pc = "ended"]]
    /\ UNCHANGED <<cmdVars, envVars, reconnecting, mutexHeld, userData, handlers,
                   nextSock, wire, crashed, supPc, kaPc, kaTs, pings,
                   rpcVars, repoVars, histVars>>

\* A register or error frame is read and handed to the handler that
\* SendRegisterTunnel installed; the handler sends on a channel of capacity 1.
PumpControlFrame(p) ==
    /\ Running
    /\ UNCHANGED dtVars
    /\ pump[p].pc = "read"
    /\ pump[p].sock \notin closedSocks
    /\ inbox[pump[p].sock] # <<>>
    /\ mutexHeld = "free"
    /\ LET s == pump[p].sock
           f == Head(inbox[s]) IN
       /\ f.type \in {"register", "error"}
       /\ inbox' = [inbox EXCEPT ![s] = Tail(@)]
       /\ IF f.type \notin handlers
          THEN /\ pump' = [pump EXCEPT ![p] = PumpLoop(p)]
               /\ UNCHANGED <<responseCh, errCh>>
          ELSE IF f.type = "register"
          THEN /\ UNCHANGED errCh
               /\ IF Len(responseCh) >= 1
                  THEN /\ pump' = [pump EXCEPT ![p].pc = "blocked", ![p].req = f.req,
                                                ![p].data = <<f.url, f.port>>,
                                                ![p].outcome = IF f.success THEN "success"
                                                               ELSE "failure"]
                       /\ UNCHANGED responseCh
                  ELSE /\ responseCh' = Append(responseCh,
                                                [success |-> f.success, req |-> f.req,
                                                 url |-> f.url, port |-> f.port])
                       /\ pump' = [pump EXCEPT ![p] = PumpLoop(p)]
          ELSE /\ UNCHANGED responseCh
               /\ IF Len(errCh) >= 1
                  THEN /\ pump' = [pump EXCEPT ![p].pc = "blocked", ![p].req = f.req,
                                                ![p].outcome = "error"]
                       /\ UNCHANGED errCh
                  ELSE /\ errCh' = Append(errCh, "error")
                       /\ pump' = [pump EXCEPT ![p] = PumpLoop(p)]
    /\ crashed' = (\E q \in Socks : pump'[q].pc = "panic")
    /\ UNCHANGED <<cmdVars, tokenValid, quota, clock, broken, sentData, regAnswered, regSock,
                   writeFaults, conn, isConnected, reconnecting, mutexHeld, userData, handlers,
                   nextSock, closedSocks, wire, supPc, kaPc, kaTs, pings,
                   regTs, repoVars, histVars>>

\* ------------------------------------- Client.HandleHTTPRequestMessage
\* How the local request of the handler ends: http.NewRequest fails,
\* client.Do fails, io.ReadAll fails, or the local service has answered.
HTTPOutcomes == {"newrequest", "do", "readall", "answered"}
LocalStatus == {200, 500}

\* The response of sendHTTPErrorResponse.
ErrorResponseStatusOk(id, err) == [id |-> id, status |-> 200, error |-> err]
ErrorResponse(id, err) == [id |-> id, status |-> 500, error |-> err]

\* An http_request frame is read and handed to the handler, which parses it
\* and performs the local request.
PumpHTTPRequest(p) ==
    /\ Running
    /\ UNCHANGED dtVars
    /\ pump[p].pc = "read"
    /\ pump[p].sock \notin closedSocks
    /\ inbox[pump[p].sock] # <<>>
    /\ mutexHeld = "free"
    /\ LET s == pump[p].sock
           f == Head(inbox[s]) IN
       /\ f.type = "http_request"
       /\ inbox' = [inbox EXCEPT ![s] = Tail(@)]
       /\ IF f.type \notin handlers
          THEN pump' = [pump EXCEPT ![p] = PumpLoop(p)]
          ELSE \E o \in HTTPOutcomes :
                  pump' = [pump EXCEPT ![p] =
                             [NoPump EXCEPT !.pc = "h_http", !.sock = s, !.req = f.id,
                                            !.outcome = o]]
    /\ crashed' = (\E q \in Socks : pump'[q].pc = "panic")
    /\ UNCHANGED <<cmdVars, tokenValid, quota, clock, broken, sentData, regAnswered, regSock,
                   writeFaults, conn, isConnected, reconnecting, mutexHeld, userData, handlers,
                   nextSock, closedSocks, wire, supPc, kaPc, kaTs, pings,
                   rpcVars, repoVars, histVars>>

\* The handler sends its response, the local answer or the error response,
\* with sendMessage and returns to the read loop.
PumpHTTPResponse(p) ==
    /\ Running
    /\ UNCHANGED dtVars
    /\ pump[p].pc = "h_http"
    /\ \E code \in LocalStatus, res \in SendResults :
          LET response == IF pump[p].outcome = "answered"
                          THEN [id |-> pump[p].req, status |-> code, error |-> ""]
                          ELSE ErrorResponse(pump[p].req, pump[p].outcome) IN
          sendFrame(HTTPResponseFrame(conn, response), res)
    /\ pump' = [pump EXCEPT ![p] = PumpLoop(p)]
    /\ crashed' = (\E q \in Socks : pump'[q].pc = "panic")
    /\ UNCHANGED <<cmdVars, envVars, reconnecting, mutexHeld, userData, handlers, nextSock,
                   closedSocks, supPc, kaPc, kaTs, pings, rpcVars, repoVars,
                   validations, net, supRejected, supAfterReject, accepted, connSession, dials>>

\* Frames that are not what the protocol expects: bytes that are not JSON, a
\* message of a type without handler, and http_request messages without a
\* payload, with a payload that is not JSON, or with a payload that has no
\* request object.
MalformedFrames == {"not_json", "unknown_type", "no_payload", "bad_payload", "no_request"}

\* Message.ParseHTTPRequestPayload: ParsePayload returns nil for a message
\* without payload, and payload.Request stays nil when the payload has no
\* request object; both give a nil request with a nil error.
ParseHTTPRequestPayload(kind) ==
    [request |-> IF kind \in {"no_payload", "no_request", "bad_payload"} THEN "nil"
                 ELSE "request",
     err |-> kind = "bad_payload"]

\* readPump on such a frame.  A failed json.Unmarshal and a type without
\* handler are logged and the loop goes on.  HandleHTTPRequestMessage
\* returns the error of the parse, and otherwise reads request.Method: on a
\* nil request the goroutine panics.
PumpMalformedFrame(p) ==
    /\ Running
    /\ UNCHANGED dtVars
    /\ pump[p].pc = "read"
    /\ pump[p].sock \notin closedSocks
    /\ inbox[pump[p].sock] # <<>>
    /\ mutexHeld = "free"
    /\ LET s == pump[p].sock
           f == Head(inbox[s])
           parsed == ParseHTTPRequestPayload(f.kind) IN
       /\ f.type = "malformed"
       /\ inbox' = [inbox EXCEPT ![s] = Tail(@)]
       /\ IF f.kind \in {"not_json", "unknown_type"} \/ "http_request" \notin handlers
          THEN pump' = [pump EXCEPT ![p] = PumpLoop(p)]
          ELSE IF parsed.err
          THEN pump' = [pump EXCEPT ![p] = PumpLoop(p)]
          ELSE IF parsed.request = "nil"
          THEN pump' = [pump EXCEPT ![p] = [NoPump EXCEPT !.pc = "panic", !.sock = s]]
          ELSE pump' = [pump EXCEPT ![p] = PumpLoop(p)]
    /\ crashed' = (\E q \in Socks : pump'[q].pc = "panic")
    /\ UNCHANGED <<cmdVars, tokenValid, quota, clock, broken, sentData, regAnswered, regSock,
                   writeFaults, conn, isConnected, reconnecting, mutexHeld, userData, handlers,
                   nextSock, closedSocks, wire, supPc, kaPc, kaTs, pings,
                   rpcVars, repoVars, histVars>>

\* The HTML rewriting of HandleHTTPRequestMessage.  Strings are sequences of
\* tokens; strings.ReplaceAll replaces the non-overlapping occurrences of old
\* from left to right.
RECURSIVE ReplaceAll(_, _, _)
ReplaceAll(str, old, new) ==
    IF Len(str) < Len(old) THEN str
    ELSE IF SubSeq(str, 1, Len(old)) = old
    THEN new \o ReplaceAll(SubSeq(str, Len(old) + 1, Len(str)), old, new)
    ELSE <<Head(str)>> \o ReplaceAll(Tail(str), old, new)

TunnelScheme(scheme) == IF scheme = "https" THEN "https://" ELSE "http://"

RewriteHTML(body, port, scheme, hostname) ==
    LET localURLPrefix == <<"http://", "localhost:">> \o port
        localURLPrefixSecure == <<"https://", "localhost:">> \o port
        tunnelURLPrefix == <<TunnelScheme(scheme)>> \o hostname
        b1 == ReplaceAll(body, localURLPrefix, tunnelURLPrefix)
        b2 == ReplaceAll(b1, localURLPrefixSecure, tunnelURLPrefix)
        b3 == ReplaceAll(b2, <<"href=\"", "/">>, <<"href=\"">> \o tunnelURLPrefix \o <<"/">>)
    IN  ReplaceAll(b3, <<"src=\"", "/">>, <<"src=\"">> \o tunnelURLPrefix \o <<"/">>)

NoHTML == [body |-> <<>>, port |-> <<>>, scheme |-> "", hostname |-> <<>>,
           once |-> <<>>, twice |-> <<>>, passes |-> 0]

\* The rewriter is applied to a body, and then to its own output.
RewriteBody ==
    /\ html.passes < MaxPasses
    /\ html' = IF html.passes = 0
               THEN [html EXCEPT !.passes = 1,
                       !.once = RewriteHTML(html.body, html.port, html.scheme, html.hostname)]
               ELSE [html EXCEPT !.passes = @ + 1,
                       !.twice = RewriteHTML(html.once, html.port, html.scheme, html.hostname)]
    /\ UNCHANGED <<cmdVars, envVars, clientVars, rpcVars, repoVars, histVars,
                   dtMutex, dtListener, dtConnection, remotePort, configPort, tunnelRecPort,
                   callbackSet, callbackCalls, dtReply, dtRequested, dtActual,
                   ctlPc, ctlActual, ctlRounds, closeId, stopped, stopCh, controlConn, served, ctlLog, targetAddr, localPort, oldTasks, starts, localRequest>>

\* ------------------------------------ TunnelRepository.handleDataMessage
\* A data frame is read: the registry is looked up.  An unknown connection id
\* needs the tunnel (else the frame is dropped) and goes on to dial; a known
\* one goes on to write.
GetByIDAlwaysOk(tunnelID) == TRUE
GetByIDOk(tunnelID) == tunnelID \in tunnels

PumpDataFrame(p) ==
    /\ Running
    /\ UNCHANGED dtVars
    /\ pump[p].pc = "read"
    /\ pump[p].sock \notin closedSocks
    /\ inbox[pump[p].sock] # <<>>
    /\ mutexHeld = "free"
    /\ LET s == pump[p].sock
           f == Head(inbox[s]) IN
       /\ f.type = "data"
       /\ inbox' = [inbox EXCEPT ![s] = Tail(@)]
       /\ IF connections[f.cid] = 0
          THEN /\ pump' = [pump EXCEPT ![p] =
                             IF GetByIDOk(f.tid)
                             THEN [pc |-> "h_dial", sock |-> s, cid |-> f.cid,
                                   data |-> f.data, ls |-> 0, attempt |-> 0,
                                   req |-> 0, outcome |-> ""]
                             ELSE PumpLoop(p)]
               /\ UNCHANGED accepted
          ELSE /\ pump' = [pump EXCEPT ![p] =
                             [pc |-> "h_write", sock |-> s, cid |-> f.cid,
                              data |-> f.data, ls |-> connections[f.cid], attempt |-> 0,
                              req |-> 0, outcome |-> ""]]
               /\ accepted' = [accepted EXCEPT ![connections[f.cid]] = @ \o f.data]
    /\ crashed' = (\E q \in Socks : pump'[q].pc = "panic")
    /\ UNCHANGED <<cmdVars, tokenValid, quota, clock, broken, sentData, regAnswered, regSock,
                   writeFaults, conn, isConnected, reconnecting, mutexHeld, userData, handlers,
                   nextSock, closedSocks, wire, supPc, kaPc, kaTs, pings,
                   rpcVars, repoVars, validations, net, supRejected, supAfterReject,
                   connSession, dials,
                   failedSocks>>

NoTask == [pc |-> "none", ts |-> 0, outer |-> 0, inner |-> 0]
NewTask == [NoTask EXCEPT !.pc = "new"]

\* The dial loop: up to 5 attempts, the first success ends it.  k is the
\* attempt that succeeds, 0 when all fail.  On success the socket is put in
\* the registry and the forwarder goroutine is started.
PumpDial(p) ==
    /\ Running
    /\ UNCHANGED dtVars
    /\ pump[p].pc = "h_dial"
    /\ \E k \in 0..maxRetries :
          /\ dials' = (IF k = 0 THEN maxRetries ELSE k)
          /\ IF k = 0
             THEN /\ pump' = [pump EXCEPT ![p] = PumpLoop(p)]
                  /\ UNCHANGED <<connections, nextLocal, localOpen, fwd, accepted, connSession>>
             ELSE /\ nextLocal < MaxLocal
                  /\ LET ls == nextLocal + 1 IN
                     /\ nextLocal' = ls
                     /\ localOpen' = [localOpen EXCEPT ![ls] = TRUE]
                     /\ connections' = [connections EXCEPT ![pump[p].cid] = ls]
                     /\ fwd' = [fwd EXCEPT ![ls] =
                                  [pc |-> "entry", cid |-> pump[p].cid, read |-> 0]]
                     /\ connSession' = [connSession EXCEPT ![ls] = pump[p].sock]
                     /\ accepted' = [accepted EXCEPT ![ls] = @ \o pump[p].data]
                     /\ pump' = [pump EXCEPT ![p].pc = "h_write", ![p].ls = ls]
    /\ crashed' = (\E q \in Socks : pump'[q].pc = "panic")
    /\ UNCHANGED <<cmdVars, envVars, conn, isConnected, reconnecting, mutexHeld, userData,
                   handlers, nextSock, closedSocks, wire, supPc, kaPc, kaTs, pings,
                   rpcVars, tunnels, tunnelInfo, regType, localWritten, snd, fwdErrCh,
                   validations, net, supRejected, supAfterReject,
                   failedSocks>>

Take(seq, n) == SubSeq(seq, 1, n)

\* One conn.Write(payload.Data) of the handler: n bytes reach the socket, and
\* the write fails unless n is the whole payload.  A failed write is followed
\* by up to maxRetries more writes of the whole payload; the last error is
\* logged and the handler returns nil.
PumpWrite(p) ==
    /\ Running
    /\ UNCHANGED dtVars
    /\ pump[p].pc = "h_write"
    /\ LET ls == pump[p].ls
           data == pump[p].data IN
       \E n \in 0..Len(data) :
          /\ ~localOpen[ls] => n = 0
          /\ (localOpen[ls] /\ n < Len(data)) => writeFaults > 0
          /\ writeFaults' = IF localOpen[ls] /\ n < Len(data)
                             THEN writeFaults - 1 ELSE writeFaults
          /\ localWritten' = [localWritten EXCEPT ![ls] = @ \o Take(data, n)]
          /\ pump' = [pump EXCEPT ![p] =
                        IF n = Len(data) \/ pump[p].attempt >= maxRetries
                        THEN PumpLoop(p)
                        ELSE [@ EXCEPT !.attempt = @ + 1]]
    /\ crashed' = (\E q \in Socks : pump'[q].pc = "panic")
    /\ UNCHANGED <<cmdVars, tokenValid, quota, clock, broken, inbox, sentData, regAnswered,
                   regSock, conn, isConnected, reconnecting, mutexHeld, userData,
                   handlers, nextSock, closedSocks, wire, supPc, kaPc, kaTs, pings,
                   rpcVars, tunnels, tunnelInfo, regType, connections, nextLocal, localOpen,
                   fwd, snd, fwdErrCh, histVars>>

\* -------------------------------------- TunnelRepository.handleConnection
\* A return of handleConnection: its deferred function runs next.
FwdExit(ls) ==
    /\ fwd' = [fwd EXCEPT ![ls].pc = "closing"]
    /\ UNCHANGED <<localOpen, connections>>

\* The deferred function of handleConnection, first half: conn.Close().
FwdDeferClose(ls) ==
    /\ Running
    /\ UNCHANGED dtVars
    /\ fwd[ls].pc = "closing"
    /\ localOpen' = [localOpen EXCEPT ![ls] = FALSE]
    /\ fwd' = [fwd EXCEPT ![ls].pc = "deleting"]
    /\ UNCHANGED <<cmdVars, envVars, clientVars, rpcVars, tunnels, tunnelInfo, regType, connections, nextLocal,
                   localWritten, snd, fwdErrCh, histVars>>

\* What the deferred function does to the registry: the entry of the
\* connection id is deleted.
FwdDeleteKeepsEntry(ls) == connections
FwdDelete(ls) == [connections EXCEPT ![fwd[ls].cid] = 0]

\* The deferred function of handleConnection, second half: under the
\* registry mutex (held by nobody across a blocking call) the entry is
\* deleted, and the goroutine ends.
FwdDeferDelete(ls) ==
    /\ Running
    /\ UNCHANGED dtVars
    /\ fwd[ls].pc = "deleting"
    /\ connections' = FwdDelete(ls)
    /\ fwd' = [fwd EXCEPT ![ls].pc = "done"]
    /\ UNCHANGED <<cmdVars, envVars, clientVars, rpcVars, tunnels, tunnelInfo, regType, nextLocal, localOpen,
                   localWritten, snd, fwdErrCh, histVars>>

\* Entry: the socket is stored under the connection id (again).
FwdEntry(ls) ==
    /\ Running
    /\ UNCHANGED dtVars
    /\ fwd[ls].pc = "entry"
    /\ connections' = [connections EXCEPT ![fwd[ls].cid] = ls]
    /\ fwd' = [fwd EXCEPT ![ls].pc = "init_read"]
    /\ UNCHANGED <<cmdVars, envVars, clientVars, rpcVars, tunnels, tunnelInfo, regType, nextLocal, localOpen,
                   localWritten, snd, fwdErrCh, histVars>>

\* The chunks that the local services have produced so far, over all sockets;
\* MaxChunks bounds them.
RECURSIVE ChunksRead(_)
ChunksRead(n) == IF n = 0 THEN 0 ELSE fwd[n].read + ChunksRead(n - 1)

\* The first read (10 s deadline): data, or an error that ends the forwarder.
FwdInitRead(ls) ==
    /\ Running
    /\ UNCHANGED dtVars
    /\ fwd[ls].pc = "init_read"
    /\ \/ /\ ChunksRead(MaxLocal) < MaxChunks
          /\ fwd' = [fwd EXCEPT ![ls].pc = "init_send", ![ls].read = 1]
          /\ snd' = [snd EXCEPT ![ls][1] = NewTask]
          /\ UNCHANGED <<connections, localOpen>>
       \/ /\ FwdExit(ls)
          /\ UNCHANGED snd
    /\ UNCHANGED <<cmdVars, envVars, clientVars, rpcVars, tunnels, tunnelInfo, regType, nextLocal,
                   localWritten, fwdErrCh, histVars>>

\* A read of the main loop returns data: a goroutine is started that sends it
\* with sendDataWithRetry.
FwdLoopRead(ls) ==
    /\ Running
    /\ UNCHANGED dtVars
    /\ fwd[ls].pc = "loop"
    /\ ChunksRead(MaxLocal) < MaxChunks
    /\ fwd' = [fwd EXCEPT ![ls].read = @ + 1]
    /\ snd' = [snd EXCEPT ![ls][fwd[ls].read + 1] = NewTask]
    /\ UNCHANGED <<cmdVars, envVars, clientVars, rpcVars, tunnels, tunnelInfo, regType, connections, nextLocal,
                   localOpen, localWritten, fwdErrCh, histVars>>

\* A read of the main loop returns EOF or an error, or a sender reported a
\* failure on errCh: the forwarder returns.
FwdLoopEnd(ls) ==
    /\ Running
    /\ UNCHANGED dtVars
    /\ fwd[ls].pc = "loop"
    /\ FwdExit(ls)
    /\ \/ UNCHANGED fwdErrCh
       \/ /\ fwdErrCh[ls] > 0
          /\ fwdErrCh' = [fwdErrCh EXCEPT ![ls] = 0]
    /\ UNCHANGED <<cmdVars, envVars, clientVars, rpcVars, tunnels, tunnelInfo, regType, nextLocal,
                   localWritten, snd, histVars>>

\* ------------------------------- sendDataWithRetry / Client.SendData
\* NewMessage of one SendData attempt.
SndNewMessage(ls, k) ==
    /\ Running
    /\ UNCHANGED dtVars
    /\ snd[ls][k].pc = "new"
    /\ snd' = [snd EXCEPT ![ls][k].pc = "send", ![ls][k].ts = clock]
    /\ UNCHANGED <<cmdVars, envVars, clientVars, rpcVars, tunnels, tunnelInfo, regType, connections, nextLocal,
                   localOpen, localWritten, fwd, fwdErrCh, histVars>>

\* sendMessage of one SendData attempt.  SendData gives up after
\* SendDataMaxRetries attempts, its caller after maxRetries calls of SendData.
\* Task 1 is the initial chunk, sent by the forwarder itself.
SndSend(ls, k) ==
    /\ Running
    /\ UNCHANGED dtVars
    /\ snd[ls][k].pc = "send"
    /\ \E res \in SendResults :
          /\ sendMessage([type |-> "data", ts |-> snd[ls][k].ts], fwd[ls].cid, ls, k, res)
          /\ LET t == snd[ls][k]
                 innerDone == t.inner + 1 >= SendDataMaxRetries
                 outerDone == innerDone /\ t.outer + 1 >= maxRetries IN
             IF res = "sent"
             THEN /\ snd' = [snd EXCEPT ![ls][k].pc = "done"]
                  /\ fwd' = IF k = 1 THEN [fwd EXCEPT ![ls].pc = "loop"] ELSE fwd
                  /\ UNCHANGED <<connections, localOpen, fwdErrCh>>
             ELSE IF ~outerDone
             THEN /\ snd' = [snd EXCEPT ![ls][k] =
                               [pc |-> "new", ts |-> 0,
                                outer |-> IF innerDone THEN t.outer + 1 ELSE t.outer,
                                inner |-> IF innerDone THEN 0 ELSE t.inner + 1]]
                  /\ UNCHANGED <<fwd, connections, localOpen, fwdErrCh>>
             ELSE IF k = 1
             THEN /\ snd' = [snd EXCEPT ![ls][k].pc = "failed"]
                  /\ FwdExit(ls)
                  /\ UNCHANGED fwdErrCh
             ELSE /\ UNCHANGED <<fwd, connections, localOpen>>
                  /\ IF fwdErrCh[ls] = 0
                     THEN /\ fwdErrCh' = [fwdErrCh EXCEPT ![ls] = 1]
                          /\ snd' = [snd EXCEPT ![ls][k].pc = "failed"]
                     ELSE /\ snd' = [snd EXCEPT ![ls][k].pc = "blocked"]
                          /\ UNCHANGED fwdErrCh
    /\ UNCHANGED <<cmdVars, envVars, reconnecting, mutexHeld, userData, handlers,
                   nextSock, closedSocks, pump, crashed, supPc, kaPc, kaTs, pings,
                   rpcVars, tunnels, tunnelInfo, regType, nextLocal, localWritten, validations, net, supRejected, supAfterReject, accepted, connSession, dials>>

\* ------------------------------------------------------------ environment
\* The server answers a register frame, with a register response or an error
\* frame.
\* The register response of the server to the register frame i: it carries
\* the public URL and the remote port the server assigned for that request.
NoURL == <<>>
ResponseURL(i) == <<"https://", i>>
ResponsePort(i) == 20000 + i
RegisterResponse(success, i) ==
    [type |-> "register", success |-> success, req |-> i,
     url |-> ResponseURL(i), port |-> ResponsePort(i)]

ServerReplies(s, max) ==
    /\ Running
    /\ UNCHANGED dtVars
    /\ regAnswered < max
    /\ s <= nextSock /\ s \notin broken \cup closedSocks
    /\ regAnswered' = regAnswered + 1
    /\ \E i \in 1..Len(wire) :
       \E f \in {RegisterResponse(TRUE, i), RegisterResponse(FALSE, i),
                 [type |-> "error", success |-> FALSE, req |-> i,
                  url |-> NoURL, port |-> 0]} :
          /\ wire[i].type = "register" /\ wire[i].sock = s
          /\ inbox' = [inbox EXCEPT ![s] = Append(@, f)]
          /\ regSock' = IF f.type = "register" /\ f.success THEN s ELSE regSock
    /\ UNCHANGED <<cmdVars, tokenValid, quota, clock, broken, sentData, writeFaults,
                   clientVars, rpcVars, repoVars, histVars>>

ServerReply(s) == ServerReplies(s, MaxReplies)

\* The server answers each of the register requests of the caller.
ServerReplyEach(s) == ServerReplies(s, MaxRpcs)

Payload(i) == [j \in 1..PayloadLen |-> (i - 1) * PayloadLen + j]

\* The server sends a data frame for connection cid of tunnel tid on the
\* session of the registered tunnel.
ServerSendDataTo(cid, tid) ==
    /\ Running
    /\ UNCHANGED dtVars
    /\ regSock # 0
    /\ regSock \notin broken \cup closedSocks
    /\ sentData < MaxInbound
    /\ sentData' = sentData + 1
    /\ inbox' = [inbox EXCEPT ![regSock] =
                   Append(@, [type |-> "data", tid |-> tid, cid |-> cid,
                              data |-> Payload(sentData + 1)])]
    /\ UNCHANGED <<cmdVars, tokenValid, quota, clock, broken, regAnswered, regSock, writeFaults,
                   clientVars, rpcVars, repoVars, histVars>>

\* The server forwards visitor bytes of the registered tunnel.
ServerSendData(cid) == ServerSendDataTo(cid, TunnelId)

\* The server forwards a visitor's HTTP request on the session of the
\* registered tunnel, with a request id of its own.
ServerSendHTTPRequest ==
    /\ Running
    /\ UNCHANGED dtVars
    /\ regSock # 0
    /\ regSock \notin broken \cup closedSocks
    /\ sentData < MaxInbound
    /\ sentData' = sentData + 1
    /\ inbox' = [inbox EXCEPT ![regSock] =
                   Append(@, [type |-> "http_request", id |-> sentData + 1])]
    /\ UNCHANGED <<cmdVars, tokenValid, quota, clock, broken, regAnswered, regSock, writeFaults,
                   clientVars, rpcVars, repoVars, histVars>>

\* The server sends a frame that is not what the protocol expects.
ServerSendMalformed(s) ==
    /\ Running
    /\ UNCHANGED dtVars
    /\ s <= nextSock /\ s \notin broken \cup closedSocks
    /\ sentData < MaxInbound
    /\ sentData' = sentData + 1
    /\ \E kind \in MalformedFrames :
          inbox' = [inbox EXCEPT ![s] = Append(@, [type |-> "malformed", kind |-> kind])]
    /\ UNCHANGED <<cmdVars, tokenValid, quota, clock, broken, regAnswered, regSock, writeFaults,
                   clientVars, rpcVars, repoVars, histVars>>

\* The server (or the network) drops a session.
ServerDrop(s) ==
    /\ Running
    /\ UNCHANGED dtVars
    /\ s <= nextSock /\ s \notin broken
    /\ broken' = broken \cup {s}
    /\ UNCHANGED <<cmdVars, tokenValid, quota, clock, inbox, sentData, regAnswered, regSock, writeFaults,
                   clientVars, rpcVars, repoVars, histVars>>

\* The validator stops accepting the token.
RevokeToken ==
    /\ Running
    /\ UNCHANGED dtVars
    /\ tokenValid
    /\ tokenValid' = FALSE
    /\ UNCHANGED <<cmdVars, quota, clock, broken, inbox, sentData, regAnswered, regSock, writeFaults,
                   clientVars, rpcVars, repoVars, histVars>>

Tick ==
    /\ Running
    /\ UNCHANGED dtVars
    /\ clock < MaxClock
    /\ clock' = clock + 1
    /\ UNCHANGED <<cmdVars, tokenValid, quota, broken, inbox, sentData, regAnswered, regSock, writeFaults,
                   clientVars, rpcVars, repoVars, histVars>>

\* ------------------------------------------------------ tcpCmd.Run (main)
\* The condition under which tcpCmd.Run checks and validates the token.
TcpTokenCheckedAuthOnly(cfg) == cfg.AuthEnabled
TcpTokenChecked(cfg) == cfg.AuthEnabled \/ cfg.ConnectionMode = "direct_tcp"

\* The connection mode is forced to direct_tcp, then the token must not be
\* empty.
TcpRun ==
    /\ Running
    /\ cmd = "tcp" /\ mainPc = "run"
    /\ config' = [config EXCEPT !.ConnectionMode = "direct_tcp"]
    /\ IF TcpTokenChecked(config')
       THEN IF config.AuthToken = "" THEN Exit("no_token") ELSE Goto("tcp_validate")
       ELSE Goto("create")
    /\ UNCHANGED <<cmd, userPort, repoKind, tcpUserData, authResponse, envVars, clientVars, rpcVars,
                   repoVars, histVars, dtVars, tunnelConfig>>

\* The responses of the validation endpoint that ValidateTokenWithResponse
\* returns without an error: the validator accepts a valid token with status
\* "success" and code 200, and answers anything else otherwise.
NoResponse == [status |-> "", code |-> 0]
AcceptResponse == [status |-> "success", code |-> 200]
RefuseResponses == {[status |-> "error", code |-> 401],
                    [status |-> "success", code |-> 401],
                    [status |-> "error", code |-> 200]}

\* The check of the response in tcpCmd.Run.
ResponseAcceptedStatusOnly(resp) == resp.status = "success"
ResponseAccepted(resp) == resp.status = "success" /\ resp.code = 200

\* AuthService.ValidateTokenWithResponse and the check of the response.  The
\* call fails (neterr) or returns the validator's response.
TcpValidate ==
    /\ Running
    /\ cmd = "tcp" /\ mainPc = "tcp_validate"
    /\ net' = net \cup {"validate"}
    /\ validations' = Inc(validations)
    /\ \/ /\ Exit("validation")                           \* err # nil
          /\ UNCHANGED <<tcpUserData, authResponse>>
       \/ \E resp \in IF tokenValid THEN {AcceptResponse} ELSE RefuseResponses :
             /\ authResponse' = resp
             /\ IF ResponseAccepted(resp)
                THEN Goto("tcp_limit") /\ tcpUserData' = quota
                ELSE Exit("validation") /\ UNCHANGED tcpUserData
    /\ UNCHANGED <<cmd, config, userPort, repoKind, envVars, clientVars, rpcVars, repoVars,
                   supRejected, supAfterReject, accepted, connSession, dials, dtVars,
                   failedSocks, tunnelConfig>>

\* "Check tunnel limits".
TcpCheckLimit ==
    /\ Running
    /\ cmd = "tcp" /\ mainPc = "tcp_limit"
    /\ IF ~tcpUserData.set THEN Exit("unvalidated")
       ELSE IF tcpUserData.reached \/ tcpUserData.used >= tcpUserData.limit
       THEN Exit("quota")
       ELSE Goto("create")
    /\ UNCHANGED <<cmd, config, userPort, repoKind, tcpUserData, authResponse, envVars, clientVars,
                   rpcVars, repoVars, histVars, dtVars, tunnelConfig>>

\* TunnelService.CreateTCPTunnel: Register of the repository the container
\* built at initialisation.
CreateTCPTunnel ==
    /\ Running
    /\ cmd = "tcp" /\ mainPc = "create"
    /\ tunnelConfig' = IF tunnelConfig.LocalAddr = ""
                       THEN [tunnelConfig EXCEPT !.LocalAddr = "127.0.0.1"]
                       ELSE tunnelConfig
    /\ Goto(IF repoKind = "websocket" THEN "register" ELSE "dt_register")
    /\ UNCHANGED <<cmd, config, userPort, repoKind, tcpUserData, authResponse, envVars, clientVars,
                   rpcVars, repoVars, histVars, dtVars>>

\* ------------------------------------------------- handshake replies
\* A reply is the sequence of its tokens: words (":" and "\n" among them) and
\* decimal numbers.
W(word) == [s |-> word, n |-> -1]
N(num) == [s |-> "#", n |-> num]

Contains(resp, tok) == \E i \in 1..Len(resp) : resp[i] = tok
HasPrefix(resp, pre) == Len(resp) >= Len(pre) /\ SubSeq(resp, 1, Len(pre)) = pre

\* strings.Split(resp, ":")
RECURSIVE Split(_)
Split(resp) ==
    IF ~Contains(resp, W(":")) THEN <<resp>>
    ELSE LET i == CHOOSE k \in 1..Len(resp) :
                     resp[k] = W(":") /\ \A m \in 1..(k - 1) : resp[m] # W(":")
         IN <<SubSeq(resp, 1, i - 1)>> \o Split(SubSeq(resp, i + 1, Len(resp)))

\* strconv.Atoi succeeds on a part that is one number.
AtoiOk(part) == Len(part) = 1 /\ part[1].s = "#"
Atoi(part) == part[1].n

\* The port a CONNECTED: reply makes the tunnel adopt, 0 when there is none.
AdoptedPort(resp, current) ==
    IF ~HasPrefix(resp, <<W("CONNECTED"), W(":")>>) THEN 0
    ELSE LET parts == Split(resp) IN
         IF Len(parts) >= 2 /\ AtoiOk(parts[2]) /\ Atoi(parts[2]) # current
         THEN Atoi(parts[2]) ELSE 0

\* Readings of the clock in nanoseconds, and results of rand.Intn(n): the
\* least one, the greatest one and one between.
UnixNanos == {0, 10777, 20000}
RandIntn(n) == {0, 10777, n - 1}

\* generateRandomInt: min plus the clock modulo (max - min + 1).
generateRandomInt(min, max, nanos) == min + (nanos % (max - min + 1))

\* The address of the local service of the tunnel and another address.
TargetHost == "127.0.0.1"
TargetPort == 22
OtherHost == "10.0.0.5"

\* The tunnel configuration of the tcp command: --local-addr and the port.
DefaultTunnelConfig == [LocalAddr |-> TargetHost, LocalPort |-> TargetPort]
LocalAddrs == {"", TargetHost, "192.168.1.10"}
TunnelLocalPorts == {TargetPort, 60000}
UserPorts == {0, 20000}
ServerPorts == {20000, 20777}

Replies ==
    {<<W("CONNECTED"), W(":"), N(n)>> : n \in ServerPorts}
    \cup {<<W("CONNECTED"), W(":"), N(n), W("\n")>> : n \in ServerPorts}
    \cup {<<W("CONNECTED")>>, <<W("ERROR"), W(":"), W("port in use")>>, <<W("HELLO")>>}

\* --------------------------------------- directTunnelRepository.Register
\* A remote port of 0 is replaced by a random one; the tunnel record and the
\* DirectTunnel are created with it.
DtRegister ==
    /\ Running
    /\ mainPc = "dt_register"
    /\ \E nanos \in UnixNanos :
          /\ configPort' = IF userPort = 0 THEN generateRandomInt(10000, 30000, nanos)
                            ELSE userPort
          /\ remotePort' = configPort'
          /\ tunnelRecPort' = configPort'
    /\ \E nanos \in UnixNanos :
          localPort' = LET localListenerPort == 6000 + tunnelConfig.LocalPort IN
                       IF localListenerPort < 1024 \/ localListenerPort > 65535
                       THEN generateRandomInt(3000, 9000, nanos)
                       ELSE localListenerPort
    /\ targetAddr' = <<"127.0.0.1", tunnelConfig.LocalPort>>
    /\ Goto("dt_start")
    /\ UNCHANGED <<cmd, config, userPort, repoKind, tcpUserData, authResponse, envVars, clientVars,
                   rpcVars, repoVars, histVars, dtMutex, dtListener, dtConnection,
                   callbackSet, callbackCalls, dtReply, dtRequested, dtActual,
                   ctlPc, ctlActual, ctlRounds, html, closeId, stopped, stopCh, controlConn, served, ctlLog, tunnelConfig, oldTasks, starts, localRequest>>

\* --------------------------------------------------- DirectTunnel.Start
\* A return of Start with an error: the deferred Unlock, then Register and
\* CreateTCPTunnel pass the error on and the command exits.
StartFails ==
    /\ dtMutex' = "free"
    /\ Exit("create")

\* Entry of Start: the mutex is taken, a tunnel with a listener or a
\* connection is reported as running.
StartLock ==
    /\ Running
    /\ mainPc = "dt_start"
    /\ dtMutex = "free"
    /\ IF dtListener \/ dtConnection # "nil"
       THEN StartFails
       ELSE dtMutex' = "start" /\ Goto("dt_listen")
    /\ stopped' = IF dtListener \/ dtConnection # "nil" THEN stopped ELSE FALSE
    /\ UNCHANGED <<cmd, config, userPort, repoKind, tcpUserData, authResponse, envVars, clientVars,
                   rpcVars, repoVars, histVars, dtListener, dtConnection, remotePort,
                   configPort, tunnelRecPort, callbackSet, callbackCalls, dtReply,
                   dtRequested, dtActual, ctlPc, ctlActual, ctlRounds, html, closeId, stopCh, controlConn, served, ctlLog, tunnelConfig, targetAddr, localPort, oldTasks, starts, localRequest>>

\* net.Listen, then net.DialTimeout to the control port.
StartDial ==
    /\ Running
    /\ mainPc = "dt_listen"
    /\ \E out \in {"listenfail", "dialfail", "ok"} :
          /\ net' = IF out = "listenfail" THEN net ELSE net \cup {"dt_dial"}
          /\ IF out = "ok"
             THEN /\ dtConnection' = "open"
                  /\ Goto("dt_write")
                  /\ UNCHANGED dtMutex
             ELSE /\ StartFails
                  /\ UNCHANGED dtConnection
    /\ UNCHANGED <<cmd, config, userPort, repoKind, tcpUserData, authResponse, envVars, clientVars,
                   rpcVars, repoVars, validations, supRejected, supAfterReject, accepted,
                   connSession, dials, dtListener, remotePort,
                   configPort, tunnelRecPort, callbackSet, callbackCalls, dtReply,
                   dtRequested, dtActual, ctlPc, ctlActual, ctlRounds,
                   failedSocks, html, closeId, stopped, stopCh, controlConn, served, ctlLog, tunnelConfig, targetAddr, localPort, oldTasks, starts, localRequest>>

\* The registration line is written and the reply is read.
StartHandshake ==
    /\ Running
    /\ mainPc = "dt_write"
    /\ dtRequested' = remotePort
    /\ \/ /\ StartFails                       \* the write or the read fails
          /\ UNCHANGED dtReply
       \/ \E r \in Replies :
             /\ dtReply' = r
             /\ Goto("dt_reply")
             /\ UNCHANGED dtMutex
    /\ UNCHANGED <<cmd, config, userPort, repoKind, tcpUserData, authResponse, envVars, clientVars,
                   rpcVars, repoVars, histVars, dtListener, dtConnection, remotePort,
                   configPort, tunnelRecPort, callbackSet, callbackCalls,
                   dtActual, ctlPc, ctlActual, ctlRounds, html, closeId, stopped, stopCh, controlConn, served, ctlLog, tunnelConfig, targetAddr, localPort, oldTasks, starts, localRequest>>

\* The reply is examined.  On ERROR the connection is closed, a new random
\* port is chosen and Start calls itself; on CONNECTED: with another port the
\* port is to be adopted; a reply without CONNECTED is an error.
StartReply ==
    /\ Running
    /\ mainPc = "dt_reply"
    /\ IF Contains(dtReply, W("ERROR"))
       THEN /\ dtConnection' = "closed"
            /\ \E r \in RandIntn(20000) : remotePort' = 10000 + r
            /\ Goto("dt_start")
            /\ UNCHANGED <<dtMutex, dtActual>>
       ELSE IF HasPrefix(dtReply, <<W("CONNECTED"), W(":")>>)
       THEN /\ dtActual' = AdoptedPort(dtReply, remotePort)
            /\ Goto(IF dtActual' # 0 THEN "dt_adopt" ELSE "dt_finish")
            /\ UNCHANGED <<dtMutex, dtConnection, remotePort>>
       ELSE IF ~Contains(dtReply, W("CONNECTED"))
       THEN /\ dtConnection' = "closed"
            /\ StartFails
            /\ UNCHANGED <<remotePort, dtActual>>
       ELSE /\ Goto("dt_finish")
            /\ UNCHANGED <<dtMutex, dtConnection, remotePort, dtActual>>
    /\ UNCHANGED <<cmd, config, userPort, repoKind, tcpUserData, authResponse, envVars, clientVars,
                   rpcVars, repoVars, histVars, dtListener,
                   configPort, tunnelRecPort, callbackSet, callbackCalls, dtReply,
                   dtRequested, ctlPc, ctlActual, ctlRounds, html, closeId, stopped, stopCh, controlConn, served, ctlLog, tunnelConfig, targetAddr, localPort, oldTasks, starts, localRequest>>

\* The adoption of the server's port, in Start (who = "start") and in the
\* control loop (who = "control"): the mutex is taken, remotePort is set and
\* the callback, if there is one, is called with the port.  The callback that
\* tcpCmd.Run installs stores the port in the tunnel record.
AdoptPort(who) ==
    /\ Running
    /\ dtMutex = "free"
    /\ \/ /\ who = "start" /\ mainPc = "dt_adopt"
          /\ remotePort' = dtActual
          /\ callbackCalls' = IF callbackSet THEN Append(callbackCalls, dtActual)
                              ELSE callbackCalls
          /\ tunnelRecPort' = IF callbackSet THEN dtActual ELSE tunnelRecPort
          /\ Goto("dt_finish")
          /\ UNCHANGED ctlPc
       \/ /\ who = "control" /\ ctlPc = "adopt"
          /\ remotePort' = ctlActual
          /\ callbackCalls' = IF callbackSet THEN Append(callbackCalls, ctlActual)
                              ELSE callbackCalls
          /\ tunnelRecPort' = IF callbackSet THEN ctlActual ELSE tunnelRecPort
          /\ ctlPc' = "serving"
          /\ UNCHANGED <<mainPc, exited, exitReason>>
    /\ UNCHANGED <<cmd, config, userPort, repoKind, tcpUserData, authResponse, envVars, clientVars,
                   rpcVars, repoVars, histVars, dtMutex, dtListener, dtConnection,
                   configPort, callbackSet, dtReply,
                   dtRequested, dtActual, ctlActual, ctlRounds, html, closeId, stopped, stopCh, controlConn, served, ctlLog, tunnelConfig, targetAddr, localPort, oldTasks, starts, localRequest>>

\* The control loop and the stop watcher that a Start left running, as the
\* next Start finds them: the loop lives until it returns, the watcher until
\* it has closed the stopCh of its loop.
LoopAlive == ctlPc \notin {"off", "ended"}
WatcherAlive == ctlPc # "off" /\ stopCh = "open"

\* The end of Start: the listener is stored, the accept loop and the control
\* loop are started, Start returns nil.  The control loop makes a stopCh of
\* its own and starts the watcher of it; a loop and a watcher of an earlier
\* Start are not touched.
StartFinish ==
    /\ Running
    /\ mainPc = "dt_finish"
    /\ dtListener' = TRUE
    /\ oldTasks' = IF LoopAlive \/ WatcherAlive
                   THEN Append(oldTasks, [loop |-> LoopAlive, watcher |-> WatcherAlive,
                                          stopCh |-> stopCh])
                   ELSE oldTasks
    /\ ctlPc' = "dial"
    /\ stopCh' = "open"
    /\ starts' = starts + 1
    /\ dtMutex' = "free"
    /\ Goto(IF starts = 0 THEN "dt_started" ELSE "serving")
    /\ UNCHANGED <<cmd, config, userPort, repoKind, tcpUserData, authResponse, envVars, clientVars,
                   rpcVars, repoVars, histVars, dtConnection, remotePort,
                   configPort, tunnelRecPort, callbackSet, callbackCalls, dtReply,
                   dtRequested, dtActual, ctlActual, ctlRounds, html, closeId, stopped,
                   controlConn, served, ctlLog, tunnelConfig, targetAddr, localPort, localRequest>>

\* The end of Register: the tunnel record takes the port of the DirectTunnel
\* when it differs from the configured one.
DtRegisterFinish ==
    /\ Running
    /\ mainPc = "dt_started"
    /\ tunnelRecPort' = IF remotePort # configPort THEN remotePort ELSE tunnelRecPort
    /\ Goto("tcp_callback")
    /\ UNCHANGED <<cmd, config, userPort, repoKind, tcpUserData, authResponse, envVars, clientVars,
                   rpcVars, repoVars, histVars, dtMutex, dtListener, dtConnection,
                   remotePort, configPort, callbackSet, callbackCalls, dtReply,
                   dtRequested, dtActual, ctlPc, ctlActual, ctlRounds, html, closeId, stopped, stopCh, controlConn, served, ctlLog, tunnelConfig, targetAddr, localPort, oldTasks, starts, localRequest>>

\* tcpCmd.Run installs the port-change callback on the created tunnel.
SetPortChangeCallback ==
    /\ Running
    /\ mainPc = "tcp_callback"
    /\ dtMutex = "free"
    /\ callbackSet' = TRUE
    /\ Goto("serving")
    /\ UNCHANGED <<cmd, config, userPort, repoKind, tcpUserData, authResponse, envVars, clientVars,
                   rpcVars, repoVars, histVars, dtMutex, dtListener, dtConnection,
                   remotePort, configPort, tunnelRecPort, callbackCalls, dtReply,
                   dtRequested, dtActual, ctlPc, ctlActual, ctlRounds, html, closeId, stopped, stopCh, controlConn, served, ctlLog, tunnelConfig, targetAddr, localPort, oldTasks, starts, localRequest>>

\* One round of the control loop, taken by the default branch of the select
\* while stopCh is not closed: dial, registration line, reply.  A failed dial
\* ends the loop when the tunnel is stopped; any other failure, or a reply
\* without CONNECTED, closes the connection and makes the loop try again.
ControlHandshake ==
    /\ Running
    /\ ctlPc = "dial"
    /\ stopCh = "open"
    /\ ctlRounds < MaxCount
    /\ ctlRounds' = ctlRounds + 1
    /\ net' = net \cup {"dt_dial"}
    /\ \/ /\ ctlPc' = IF stopped THEN "ended" ELSE "dial"        \* the dial fails
          /\ UNCHANGED <<ctlActual, controlConn>>
       \/ /\ controlConn' = "closed"                  \* the write or the read fails
          /\ UNCHANGED <<ctlPc, ctlActual>>
       \/ \E r \in Replies :
             IF ~Contains(r, W("CONNECTED"))
             THEN /\ controlConn' = "closed"
                  /\ UNCHANGED <<ctlPc, ctlActual>>
             ELSE /\ controlConn' = "open"
                  /\ ctlActual' = AdoptedPort(r, remotePort)
                  /\ ctlPc' = IF ctlActual' # 0 THEN "adopt" ELSE "serving"
    /\ UNCHANGED <<cmdVars, envVars, clientVars, rpcVars, repoVars, validations,
                   supRejected, supAfterReject, accepted, connSession, dials,
                   dtMutex, dtListener, dtConnection, remotePort, configPort,
                   tunnelRecPort, callbackSet, callbackCalls, dtReply, dtRequested,
                   dtActual, stopped, stopCh, served,
                   failedSocks, html, closeId, ctlLog, targetAddr, localPort, oldTasks, starts, localRequest>>

\* What the read of handleControlConnection returns: an error when the server
\* closed the connection, or a request, given by its parts between colons.
ControlRequests ==
    {[err |-> TRUE, parts |-> <<>>]}
    \cup {[err |-> FALSE, parts |-> ps] :
             ps \in {<<"CONNECT", TargetHost, TargetPort>>,
                     <<"CONNECT", OtherHost, TargetPort>>,
                     <<"CONNECT", TargetHost, TargetPort, "x">>,
                     <<"CONNECT", TargetHost>>,
                     <<"PING">>}}

\* What handleControlConnection does with a request, as the sequence of its
\* steps: the read, the dial of the address that the request names, the reply
\* written to the control connection, the splice of the two connections.
HandleControlConnectionSilent(request, dialOk) ==
    IF request.err THEN <<>>
    ELSE IF request.parts[1] = "CONNECT" /\ Len(request.parts) >= 3 /\ dialOk
    THEN <<<<"read", request.parts>>,
           <<"dial", <<request.parts[2], request.parts[3]>>, dialOk>>,
           <<"write", "OK">>, <<"splice">>>>
    ELSE <<<<"read", request.parts>>>>

HandleControlConnection(request, dialOk) ==
    IF request.err THEN <<>>
    ELSE IF request.parts[1] = "CONNECT" /\ Len(request.parts) >= 2
    THEN IF Len(request.parts) >= 3
         THEN <<<<"read", request.parts>>,
                <<"dial", <<request.parts[2], request.parts[3]>>, dialOk>>>>
              \o (IF dialOk THEN <<<<"write", "OK">>, <<"splice">>>>
                  ELSE <<<<"write", "ERROR">>>>)
         ELSE <<<<"read", request.parts>>, <<"write", "ERROR">>>>
    ELSE <<<<"read", request.parts>>, <<"write", "ERROR">>>>

ControlNextOnce(isStopped) == "ended"
\* The end of a round of the control loop after a served connection: the loop
\* returns when the tunnel is stopped and dials again otherwise.
ControlNext(isStopped) == IF isStopped THEN "ended" ELSE "dial"

\* handleControlConnection: the request is read from the control connection
\* without a deadline and handled; the deferred Close closes the control
\* connection.  Back in the loop, a stopped tunnel ends it.
ControlLost ==
    /\ Running
    /\ ctlPc = "serving"
    /\ \E request \in ControlRequests, dialOk \in BOOLEAN :
          /\ ctlLog' = HandleControlConnection(request, dialOk)
          /\ served' = IF \E i \in 1..Len(ctlLog') : ctlLog'[i][1] = "splice"
                       THEN Append(served, stopped) ELSE served
    /\ controlConn' = "closed"
    /\ ctlPc' = ControlNext(stopped)
    /\ UNCHANGED <<cmdVars, envVars, clientVars, rpcVars, repoVars, histVars,
                   dtMutex, dtListener, dtConnection, remotePort, configPort,
                   tunnelRecPort, callbackSet, callbackCalls, dtReply, dtRequested,
                   dtActual, ctlActual, ctlRounds, stopped, stopCh, html, closeId, targetAddr, localPort, oldTasks, starts, localRequest>>

\* The select of the control loop finds stopCh closed and the loop returns.
ControlStop ==
    /\ Running
    /\ ctlPc = "dial"
    /\ stopCh = "closed"
    /\ ctlPc' = "ended"
    /\ UNCHANGED <<cmdVars, envVars, clientVars, rpcVars, repoVars, histVars,
                   dtMutex, dtListener, dtConnection, remotePort, configPort,
                   tunnelRecPort, callbackSet, callbackCalls, dtReply, dtRequested,
                   dtActual, ctlActual, ctlRounds, stopped, stopCh, controlConn, served,
                   html, closeId, ctlLog, targetAddr, localPort, oldTasks, starts, localRequest>>

\* The goroutine that polls isStopped every second closes stopCh.
StopWatcher ==
    /\ Running
    /\ ctlPc # "off"
    /\ stopCh = "open"
    /\ dtMutex = "free"
    /\ stopped
    /\ stopCh' = "closed"
    /\ UNCHANGED <<cmdVars, envVars, clientVars, rpcVars, repoVars, histVars,
                   dtMutex, dtListener, dtConnection, remotePort, configPort,
                   tunnelRecPort, callbackSet, callbackCalls, dtReply, dtRequested,
                   dtActual, ctlPc, ctlActual, ctlRounds, stopped, controlConn, served,
                   html, closeId, ctlLog, targetAddr, localPort, oldTasks, starts, localRequest>>

\* --------------------------------------------------- DirectTunnel.Stop
\* Called by directTunnelRepository.Unregister when the command closes its
\* tunnel: the flag is set, the listener and t.connection are closed and set
\* to nil.  The connection of the control loop is a local variable of that
\* loop and is not touched.
Stop ==
    /\ Running
    /\ mainPc = "serving" /\ repoKind = "direct_tcp" /\ cmd = "tcp"
    /\ dtMutex = "free"
    /\ stopped' = TRUE
    /\ dtListener' = FALSE
    /\ dtConnection' = "nil"
    /\ Goto("dt_stopped")
    /\ UNCHANGED <<cmd, config, userPort, repoKind, tcpUserData, authResponse, envVars,
                   clientVars, rpcVars, repoVars, histVars,
                   dtMutex, remotePort, configPort, tunnelRecPort,
                   callbackSet, callbackCalls, dtReply, dtRequested, dtActual,
                   ctlPc, ctlActual, ctlRounds, stopCh, controlConn, served,
                   html, closeId, ctlLog, tunnelConfig, targetAddr, localPort, oldTasks, starts, localRequest>>

\* Start is called again on a stopped tunnel.
StartAgain ==
    /\ Running
    /\ mainPc = "dt_stopped"
    /\ starts < MaxStarts
    /\ Goto("dt_start")
    /\ UNCHANGED <<cmd, config, userPort, repoKind, tcpUserData, authResponse, tunnelConfig,
                   envVars, clientVars, rpcVars, repoVars, histVars, dtVars>>

\* The watcher of an earlier Start finds the tunnel stopped and closes the
\* stopCh of its loop.
OldStopWatcher(i) ==
    /\ Running
    /\ i \in 1..Len(oldTasks)
    /\ oldTasks[i].watcher
    /\ dtMutex = "free"
    /\ stopped
    /\ oldTasks' = [oldTasks EXCEPT ![i].watcher = FALSE, ![i].stopCh = "closed"]
    /\ UNCHANGED <<cmdVars, envVars, clientVars, rpcVars, repoVars, histVars,
                   dtMutex, dtListener, dtConnection, remotePort, configPort,
                   tunnelRecPort, callbackSet, callbackCalls, dtReply, dtRequested,
                   dtActual, ctlPc, ctlActual, ctlRounds, stopped, stopCh, controlConn, served,
                   html, closeId, ctlLog, targetAddr, localPort, starts, localRequest>>

\* The control loop of an earlier Start returns: its select finds its stopCh
\* closed, or one of its checks of isStopped finds the tunnel stopped.
OldControlStop(i) ==
    /\ Running
    /\ i \in 1..Len(oldTasks)
    /\ oldTasks[i].loop
    /\ oldTasks[i].stopCh = "closed" \/ (stopped /\ dtMutex = "free")
    /\ oldTasks' = [oldTasks EXCEPT ![i].loop = FALSE]
    /\ UNCHANGED <<cmdVars, envVars, clientVars, rpcVars, repoVars, histVars,
                   dtMutex, dtListener, dtConnection, remotePort, configPort,
                   tunnelRecPort, callbackSet, callbackCalls, dtReply, dtRequested,
                   dtActual, ctlPc, ctlActual, ctlRounds, stopped, stopCh, controlConn, served,
                   html, closeId, ctlLog, targetAddr, localPort, starts, localRequest>>

\* ------------------------------------------------------------------- Init
\* No request of an http_request message is being handled.
NoRequest == [set |-> FALSE]
NoLocalRequest == [request |-> NoRequest, sent |-> NoRequest]

InitDirect ==
    /\ dtMutex = "free" /\ dtListener = FALSE /\ dtConnection = "nil"
    /\ remotePort = 0 /\ configPort = 0 /\ tunnelRecPort = 0
    /\ callbackSet = FALSE /\ callbackCalls = <<>>
    /\ dtReply = <<>> /\ dtRequested = 0 /\ dtActual = 0
    /\ ctlPc = "off" /\ ctlActual = 0 /\ ctlRounds = 0
    /\ stopped = FALSE /\ stopCh = "open" /\ controlConn = "nil" /\ served = <<>>
    /\ ctlLog = <<>> /\ targetAddr = <<>> /\ localPort = 0
    /\ oldTasks = <<>> /\ starts = 0

NoQuota == [set |-> TRUE, reached |-> FALSE, used |-> 0, limit |-> 1]

InitBase ==
    /\ mainPc = "run" /\ exited = "running" /\ exitReason = "" /\ tcpUserData = NilUser
    /\ authResponse = NoResponse
    /\ InitDirect /\ html = NoHTML /\ localRequest = NoLocalRequest /\ closeId = "" /\ regType = "http"
    /\ clock = 0 /\ broken = {} /\ inbox = [s \in Socks |-> <<>>]
    /\ sentData = 0 /\ regAnswered = 0 /\ regSock = 0
    /\ writeFaults = MaxWriteFaults
    /\ conn = 0 /\ isConnected = FALSE /\ reconnecting = FALSE /\ mutexHeld = "free"
    /\ userData = NilUser /\ handlers = {"data", "http_request"}
    /\ nextSock = 0 /\ closedSocks = {} /\ wire = <<>>
    /\ pump = [s \in Socks |-> NoPump] /\ crashed = FALSE
    /\ supPc = "off" /\ kaPc = "off" /\ kaTs = 0 /\ pings = 0
    /\ regTs = 0 /\ responseCh = <<>> /\ errCh = <<>>
    /\ tunnels = {} /\ tunnelInfo = NoTunnel /\ connections = [c \in ConnIds |-> 0] /\ nextLocal = 0
    /\ localOpen = [l \in Locals |-> FALSE]
    /\ localWritten = [l \in Locals |-> <<>>]
    /\ fwd = [l \in Locals |-> [pc |-> "none", cid |-> "", read |-> 0]]
    /\ snd = [l \in Locals |-> [k \in Chunks |-> NoTask]]
    /\ fwdErrCh = [l \in Locals |-> 0]
    /\ validations = 0 /\ net = {} /\ supRejected = FALSE /\ supAfterReject = 0
    /\ accepted = [l \in Locals |-> <<>>]
    /\ connSession = [l \in Locals |-> 0]
    /\ dials = 0 /\ failedSocks = {}

InitState == InitBase /\ tunnelConfig = DefaultTunnelConfig

\* The http command with a WebSocket configuration and a valid token.
Init ==
    /\ InitState
    /\ cmd = "http" /\ userPort = 0 /\ repoKind = "websocket"
    /\ config = [ConnectionMode |-> "websocket", AuthEnabled |-> TRUE, AuthToken |-> "tok"]
    /\ tokenValid = TRUE
    /\ quota = NoQuota

\* The session level: the http command, the supervisor, the keepalive ticker,
\* the register RPC and the read pump's control frames.
Next ==
    \/ HttpRun
    \/ HttpConnect
    \/ HttpCheckLimit
    \/ RunWithReconnect
    \/ SupervisorReconnect
    \/ KeepaliveNewMessage
    \/ KeepaliveSend
    \/ KeepaliveClose
    \/ RegEnsureConnected
    \/ RegInstall
    \/ RegNewMessage
    \/ RegSend
    \/ RegWait
    \/ \E p \in Socks : PumpReadError(p)
    \/ \E p \in Socks : PumpControlFrame(p)
    \/ \E s \in Socks : ServerReply(s)
    \/ \E s \in Socks : ServerDrop(s)
    \/ RevokeToken
    \/ Tick

Spec == Init /\ [][Next]_vars

\* The data path of a served tunnel.  The initial state is the one Spec reaches
\* when the http command has registered its tunnel on the first session.
InitServing(faults) ==
    /\ cmd = "http"
    /\ config = [ConnectionMode |-> "websocket", AuthEnabled |-> TRUE, AuthToken |-> "tok"]
    /\ mainPc = "serving" /\ exited = "running" /\ exitReason = "" /\ tcpUserData = NilUser
    /\ authResponse = NoResponse /\ tunnelConfig = DefaultTunnelConfig
    /\ userPort = 0 /\ repoKind = "websocket"
    /\ InitDirect /\ html = NoHTML /\ localRequest = NoLocalRequest /\ closeId = "" /\ regType = "http"
    /\ tokenValid = TRUE /\ quota = NoQuota
    /\ clock = 0 /\ broken = {} /\ inbox = [s \in Socks |-> <<>>]
    /\ sentData = 0 /\ regAnswered = 1 /\ regSock = 1 /\ writeFaults = faults
    /\ conn = 1 /\ isConnected = TRUE /\ reconnecting = TRUE /\ mutexHeld = "free"
    /\ userData = NoQuota /\ handlers = {"data", "http_request", "register", "error"}
    /\ nextSock = 1 /\ closedSocks = {}
    /\ wire = <<Frame(1, [type |-> "auth", ts |-> 0], "", 0, 0),
                Frame(1, [type |-> "register", ts |-> 0], "", 0, 0)>>
    /\ pump = [s \in Socks |-> IF s = 1 THEN [NoPump EXCEPT !.pc = "read", !.sock = 1]
                                        ELSE NoPump]
    /\ crashed = FALSE
    /\ supPc = "loop" /\ kaPc = "tick" /\ kaTs = 0 /\ pings = 0
    /\ regTs = 0 /\ responseCh = <<>> /\ errCh = <<>>
    /\ tunnels = {TunnelId}
    /\ tunnelInfo = TunnelFromResponse("http", RegisterResponse(TRUE, 2))
    /\ connections = [c \in ConnIds |-> 0] /\ nextLocal = 0
    /\ localOpen = [l \in Locals |-> FALSE]
    /\ localWritten = [l \in Locals |-> <<>>]
    /\ fwd = [l \in Locals |-> [pc |-> "none", cid |-> "", read |-> 0]]
    /\ snd = [l \in Locals |-> [k \in Chunks |-> NoTask]]
    /\ fwdErrCh = [l \in Locals |-> 0]
    /\ validations = 1 /\ net = {"validate", "ws_dial", "ws_frame"} /\ supRejected = FALSE /\ supAfterReject = 0
    /\ accepted = [l \in Locals |-> <<>>]
    /\ connSession = [l \in Locals |-> 0]
    /\ dials = 0 /\ failedSocks = {}

InitData == InitServing(MaxWriteFaults)

NextData ==
    \/ \E p \in Socks : PumpDataFrame(p)
    \/ \E p \in Socks : PumpDial(p)
    \/ \E p \in Socks : PumpWrite(p)
    \/ \E ls \in Locals : FwdEntry(ls)
    \/ \E ls \in Locals : FwdInitRead(ls)
    \/ \E ls \in Locals : FwdLoopRead(ls)
    \/ \E ls \in Locals : FwdLoopEnd(ls)
    \/ \E ls \in Locals : FwdDeferClose(ls)
    \/ \E ls \in Locals : FwdDeferDelete(ls)
    \/ \E ls \in Locals, k \in Chunks : SndNewMessage(ls, k)
    \/ \E ls \in Locals, k \in Chunks : SndSend(ls, k)
    \/ \E c \in ConnIds : ServerSendData(c)

SpecData == InitData /\ [][NextData]_vars

\* The data path with frames for the registered tunnel and for a tunnel the
\* registry does not hold.
NextDial ==
    \/ \E p \in Socks : PumpDataFrame(p)
    \/ \E p \in Socks : PumpDial(p)
    \/ \E p \in Socks : PumpWrite(p)
    \/ \E ls \in Locals : FwdEntry(ls)
    \/ \E ls \in Locals : FwdInitRead(ls)
    \/ \E ls \in Locals : FwdLoopRead(ls)
    \/ \E ls \in Locals : FwdLoopEnd(ls)
    \/ \E ls \in Locals : FwdDeferClose(ls)
    \/ \E ls \in Locals : FwdDeferDelete(ls)
    \/ \E ls \in Locals, k \in Chunks : SndNewMessage(ls, k)
    \/ \E ls \in Locals, k \in Chunks : SndSend(ls, k)
    \/ \E c \in ConnIds, tid \in TunnelIds : ServerSendDataTo(c, tid)

SpecDial == InitServing(0) /\ [][NextDial]_vars

\* The data path with local writes that never fail, under the Go scheduler:
\* a forwarder that has returned runs its deferred function to the end.
InitRegistry == InitServing(0)

SpecDataFair ==
    InitRegistry /\ [][NextData]_vars
        /\ \A ls \in Locals : /\ WF_vars(FwdDeferClose(ls))
                           /\ WF_vars(FwdDeferDelete(ls))

\* Loss of the session while a connection is being forwarded.  The initial
\* state is one SpecData reaches: the server has sent all its payloads, they
\* are written to local socket 1, and the forwarder has sent all chunks but
\* the last on session 1.
DataFrame(ls, k) == Frame(1, [type |-> "data", ts |-> 0], "c1", ls, k)

InitResume ==
    /\ cmd = "http"
    /\ config = [ConnectionMode |-> "websocket", AuthEnabled |-> TRUE, AuthToken |-> "tok"]
    /\ mainPc = "serving" /\ exited = "running" /\ exitReason = "" /\ tcpUserData = NilUser
    /\ authResponse = NoResponse /\ tunnelConfig = DefaultTunnelConfig
    /\ userPort = 0 /\ repoKind = "websocket"
    /\ InitDirect /\ html = NoHTML /\ localRequest = NoLocalRequest /\ closeId = "" /\ regType = "http"
    /\ tokenValid = TRUE /\ quota = NoQuota
    /\ clock = 0 /\ broken = {} /\ inbox = [s \in Socks |-> <<>>]
    /\ sentData = MaxInbound /\ regAnswered = 1 /\ regSock = 1
    /\ writeFaults = MaxWriteFaults
    /\ conn = 1 /\ isConnected = TRUE /\ reconnecting = TRUE /\ mutexHeld = "free"
    /\ userData = NoQuota /\ handlers = {"data", "http_request", "register", "error"}
    /\ nextSock = 1 /\ closedSocks = {}
    /\ wire = <<Frame(1, [type |-> "auth", ts |-> 0], "", 0, 0),
                Frame(1, [type |-> "register", ts |-> 0], "", 0, 0)>>
              \o [k \in 1..(MaxChunks - 1) |-> DataFrame(1, k)]
    /\ pump = [s \in Socks |-> IF s = 1 THEN [NoPump EXCEPT !.pc = "read", !.sock = 1]
                                        ELSE NoPump]
    /\ crashed = FALSE
    /\ supPc = "loop" /\ kaPc = "tick" /\ kaTs = 0 /\ pings = 0
    /\ regTs = 0 /\ responseCh = <<>> /\ errCh = <<>>
    /\ tunnels = {TunnelId}
    /\ tunnelInfo = TunnelFromResponse("http", RegisterResponse(TRUE, 2))
    /\ connections = [c \in ConnIds |-> 1] /\ nextLocal = 1
    /\ localOpen = [l \in Locals |-> l = 1]
    /\ localWritten = [l \in Locals |-> IF l = 1 THEN [j \in 1..(MaxInbound * PayloadLen) |-> j]
                                                 ELSE <<>>]
    /\ fwd = [l \in Locals |-> IF l = 1 THEN [pc |-> "loop", cid |-> "c1", read |-> MaxChunks - 1]
                                        ELSE [pc |-> "none", cid |-> "", read |-> 0]]
    /\ snd = [l \in Locals |-> [k \in Chunks |->
                IF l = 1 /\ k < MaxChunks THEN [NoTask EXCEPT !.pc = "done"] ELSE NoTask]]
    /\ fwdErrCh = [l \in Locals |-> 0]
    /\ validations = 1 /\ net = {"validate", "ws_dial", "ws_frame"} /\ supRejected = FALSE /\ supAfterReject = 0
    /\ accepted = [l \in Locals |-> IF l = 1 THEN [j \in 1..(MaxInbound * PayloadLen) |-> j]
                                             ELSE <<>>]
    /\ connSession = [l \in Locals |-> IF l = 1 THEN 1 ELSE 0]
    /\ dials = 1 /\ failedSocks = {}

NextResume ==
    \/ SupervisorReconnect
    \/ \E p \in Socks : PumpReadError(p)
    \/ \E ls \in Locals : FwdLoopRead(ls)
    \/ \E ls \in Locals : FwdLoopEnd(ls)
    \/ \E ls \in Locals : FwdDeferClose(ls)
    \/ \E ls \in Locals : FwdDeferDelete(ls)
    \/ \E ls \in Locals, k \in Chunks : SndNewMessage(ls, k)
    \/ \E ls \in Locals, k \in Chunks : SndSend(ls, k)
    \/ \E s \in Socks : ServerDrop(s)

SpecResume == InitResume /\ [][NextResume]_vars

\* The goroutines of the client are scheduled: a step of the supervisor, of a
\* read pump, of a forwarder or of a sender that stays possible is taken.
SpecResumeFair ==
    SpecResume
        /\ WF_vars(SupervisorReconnect)
        /\ \A p \in Socks : WF_vars(PumpReadError(p))
        /\ \A ls \in Locals : /\ WF_vars(FwdLoopRead(ls))
                              /\ WF_vars(FwdLoopEnd(ls))
                              /\ WF_vars(FwdDeferClose(ls))
                              /\ WF_vars(FwdDeferDelete(ls))
                              /\ \A k \in Chunks : /\ WF_vars(SndNewMessage(ls, k))
                                                  /\ WF_vars(SndSend(ls, k))

\* A caller that issues register RPCs one after another on a connected
\* session, each after the one before has returned.
InitConnected ==
    /\ cmd = "http"
    /\ config = [ConnectionMode |-> "websocket", AuthEnabled |-> TRUE, AuthToken |-> "tok"]
    /\ mainPc = "api_idle" /\ exited = "running" /\ exitReason = "" /\ tcpUserData = NilUser
    /\ authResponse = NoResponse /\ tunnelConfig = DefaultTunnelConfig
    /\ userPort = 0 /\ repoKind = "websocket"
    /\ InitDirect
    /\ tokenValid = TRUE /\ quota = NoQuota
    /\ clock = 0 /\ broken = {} /\ inbox = [s \in Socks |-> <<>>]
    /\ sentData = 0 /\ regAnswered = 0 /\ regSock = 0 /\ writeFaults = 0
    /\ conn = 1 /\ isConnected = TRUE /\ reconnecting = FALSE /\ mutexHeld = "free"
    /\ userData = NoQuota /\ handlers = {"data", "http_request"}
    /\ nextSock = 1 /\ closedSocks = {}
    /\ wire = <<Frame(1, [type |-> "auth", ts |-> 0], "", 0, 0)>>
    /\ pump = [s \in Socks |-> IF s = 1 THEN [NoPump EXCEPT !.pc = "read", !.sock = 1]
                                        ELSE NoPump]
    /\ crashed = FALSE
    /\ supPc = "off" /\ kaPc = "off" /\ kaTs = 0 /\ pings = 0
    /\ regTs = 0 /\ responseCh = <<>> /\ errCh = <<>>
    /\ tunnels = {} /\ tunnelInfo = NoTunnel /\ connections = [c \in ConnIds |-> 0] /\ nextLocal = 0
    /\ localOpen = [l \in Locals |-> FALSE]
    /\ localWritten = [l \in Locals |-> <<>>]
    /\ fwd = [l \in Locals |-> [pc |-> "none", cid |-> "", read |-> 0]]
    /\ snd = [l \in Locals |-> [k \in Chunks |-> NoTask]]
    /\ fwdErrCh = [l \in Locals |-> 0]
    /\ validations = 1 /\ net = {"validate", "ws_dial", "ws_frame"}
    /\ supRejected = FALSE /\ supAfterReject = 0
    /\ accepted = [l \in Locals |-> <<>>]
    /\ connSession = [l \in Locals |-> 0]
    /\ dials = 0 /\ failedSocks = {}

InitRpc == InitConnected /\ html = NoHTML /\ localRequest = NoLocalRequest /\ closeId = "" /\ regType = "http"

NextRpc ==
    \/ \E id \in TunnelIds : CloseTunnel(id)
    \/ ApiRegister
    \/ ApiRegInstall
    \/ ApiRegSend
    \/ ApiRegWait
    \/ ApiUnregister
    \/ UnregConnect
    \/ UnregSend
    \/ UnregDelete
    \/ \E p \in Socks : PumpHTTPRequest(p)
    \/ \E p \in Socks : PumpHTTPResponse(p)
    \/ ServerSendHTTPRequest
    \/ \E p \in Socks : PumpReadError(p)
    \/ \E s \in Socks : ServerDrop(s)
    \/ \E p \in Socks : PumpControlFrame(p)
    \/ \E s \in Socks : ServerReply(s)
    \/ Tick

SpecRpc == InitRpc /\ [][NextRpc]_vars

\* Register RPCs for an HTTP tunnel or for a TCP tunnel.
InitRegister ==
    /\ InitConnected /\ html = NoHTML /\ localRequest = NoLocalRequest /\ closeId = ""
    /\ regType \in TunnelTypes


\* Register RPCs issued one after another on one session, each answered by
\* the server at some time.
NextPump ==
    \/ ApiRegister
    \/ ApiRegInstall
    \/ ApiRegSend
    \/ ApiRegWait
    \/ \E p \in Socks : PumpControlFrame(p)
    \/ \E s \in Socks : ServerReplyEach(s)
    \/ Tick

SpecPump == InitRpc /\ [][NextPump]_vars

NextRegister ==
    \/ NextPump
    \/ ApiRegConnect
    \/ \E p \in Socks : PumpReadError(p)
    \/ \E s \in Socks : ServerDrop(s)

SpecRegister == InitRegister /\ [][NextRegister]_vars

\* A connected session on which the server sends frames that are not what
\* the protocol expects.
NextFrames ==
    \/ \E s \in Socks : ServerSendMalformed(s)
    \/ \E p \in Socks : PumpMalformedFrame(p)
    \/ \E p \in Socks : PumpReadError(p)
    \/ \E s \in Socks : ServerDrop(s)
    \/ Tick

SpecFrames == InitRpc /\ [][NextFrames]_vars

\* The HTML rewriter on every body, local port, scheme and hostname of the
\* bounded sets below.
HTMLTokens == {"http://", "https://", "localhost:", "8", "0", "href=\"", "src=\"", "/", "x"}
RECURSIVE Bodies(_)
Bodies(n) == IF n = 0 THEN {<<>>}
             ELSE Bodies(n - 1) \cup {Append(b, t) : b \in {c \in Bodies(n - 1) : Len(c) = n - 1},
                                                     t \in HTMLTokens}
LocalPorts == {<<"8">>, <<"8", "0">>}
Schemes == {"http", "https"}
Hostnames == {<<"x">>, <<"localhost:", "8">>, <<"localhost:", "8", "0">>}

InitRewrite ==
    /\ InitConnected
    /\ closeId = "" /\ regType = "http" /\ localRequest = NoLocalRequest
    /\ \E body \in Bodies(MaxBody), port \in LocalPorts, scheme \in Schemes,
          hostname \in Hostnames :
          html = [NoHTML EXCEPT !.body = body, !.port = port, !.scheme = scheme,
                                !.hostname = hostname]

NextRewrite == RewriteBody

\* ------------------------------------------- Client.HandleHTTPRequestMessage
\* The headers of a request: for every name the values, none when the header
\* is absent.  http.Header.Get gives the first value or the empty string.
HeaderNames == {"Host", "X-Forwarded-Host", "X-Forwarded-Proto", "X-Forwarded-For"}
HeaderGet(headers, key) == IF headers[key] = <<>> THEN "" ELSE headers[key][1]

HTTPRequests ==
    {[set |-> TRUE, Method |-> m, URL |-> u, Scheme |-> sc, RemoteAddr |-> ra, LocalPort |-> lp,
      Headers |-> [k \in HeaderNames |->
                     IF k = "Host" THEN host
                     ELSE IF k = "X-Forwarded-For" THEN xff ELSE <<>>]] :
        m \in {"GET", "POST"}, u \in {"/", "/x"}, sc \in Schemes,
        ra \in {"1.2.3.4:5", "5.6.7.8:9"}, lp \in {80, 8080},
        host \in {<<>>, <<"a.example">>}, xff \in {<<>>, <<"9.9.9.9">>}}

\* The request that the handler issues to the local service: scheme http,
\* host localhost and the local port, the headers of the request copied and
\* the three X-Forwarded headers set.
LocalHTTPRequest(request) ==
    [set |-> TRUE, Method |-> request.Method, Scheme |-> "http", Host |-> "localhost",
     Port |-> request.LocalPort, URL |-> request.URL,
     Headers |-> [request.Headers EXCEPT
                    !["X-Forwarded-Host"] = <<HeaderGet(request.Headers, "Host")>>,
                    !["X-Forwarded-Proto"] = <<"http">>,
                    !["X-Forwarded-For"] = <<request.RemoteAddr>>]]

\* The handler builds the request to the local service from the request of
\* the http_request message.
HandleHTTPRequestMessage ==
    /\ localRequest.request.set /\ ~localRequest.sent.set
    /\ localRequest' = [localRequest EXCEPT !.sent = LocalHTTPRequest(localRequest.request)]
    /\ UNCHANGED <<cmdVars, envVars, clientVars, rpcVars, repoVars, histVars,
                   dtMutex, dtListener, dtConnection, remotePort, configPort, tunnelRecPort,
                   callbackSet, callbackCalls, dtReply, dtRequested, dtActual,
                   ctlPc, ctlActual, ctlRounds, html, closeId, stopped, stopCh, controlConn,
                   served, ctlLog, targetAddr, localPort, oldTasks, starts>>

InitForward ==
    /\ InitConnected
    /\ html = NoHTML /\ closeId = "" /\ regType = "http"
    /\ \E request \in HTTPRequests : localRequest = [request |-> request, sent |-> NoRequest]

NextForward == HandleHTTPRequestMessage

SpecForward == InitForward /\ [][NextForward]_vars

SpecRewrite == InitRewrite /\ [][NextRewrite]_vars

\* Loss of the session while a connection is being forwarded and the
\* keepalive runs, with the supervisor's Connect in two steps.
NextAuth ==
    \/ SupervisorConnectDial
    \/ SupervisorConnectAuth
    \/ KeepaliveNewMessage
    \/ KeepaliveSend
    \/ KeepaliveClose
    \/ \E p \in Socks : PumpReadError(p)
    \/ \E ls \in Locals : FwdLoopRead(ls)
    \/ \E ls \in Locals : FwdLoopEnd(ls)
    \/ \E ls \in Locals : FwdDeferClose(ls)
    \/ \E ls \in Locals : FwdDeferDelete(ls)
    \/ \E ls \in Locals, k \in Chunks : SndNewMessage(ls, k)
    \/ \E ls \in Locals, k \in Chunks : SndSend(ls, k)
    \/ \E s \in Socks : ServerDrop(s)

SpecAuth == InitResume /\ [][NextAuth]_vars

\* The http and tcp commands under every configuration, up to the creation of
\* the tunnel, and the Direct-TCP tunnel that the tcp command creates.
Quotas == {[set |-> TRUE, reached |-> r, used |-> u, limit |-> 1] :
              r \in BOOLEAN, u \in 0..1}

InitCmd ==
    /\ InitState
    /\ cmd \in {"http", "tcp"}
    /\ config \in [ConnectionMode : {"websocket", "direct_tcp"},
                   AuthEnabled : BOOLEAN, AuthToken : {"", "tok"}]
    /\ repoKind = config.ConnectionMode
    /\ userPort \in UserPorts
    /\ tokenValid \in BOOLEAN
    /\ quota \in Quotas

NextCmd ==
    \/ HttpRun
    \/ HttpConnect
    \/ HttpCheckLimit
    \/ RunWithReconnect
    \/ TcpRun
    \/ TcpValidate
    \/ TcpCheckLimit
    \/ CreateTCPTunnel
    \/ DtRegister
    \/ StartLock
    \/ StartDial
    \/ StartHandshake
    \/ StartReply
    \/ \E who \in {"start", "control"} : AdoptPort(who)
    \/ ControlStop
    \/ StopWatcher
    \/ Stop
    \/ StartFinish
    \/ DtRegisterFinish
    \/ SetPortChangeCallback
    \/ ControlHandshake
    \/ ControlLost

SpecCmd == InitCmd /\ [][NextCmd]_vars

\* The tcp command in Direct-TCP mode whose tunnel is stopped and started
\* again.
InitRestart ==
    /\ InitState
    /\ cmd = "tcp" /\ repoKind = "direct_tcp" /\ userPort = 20000
    /\ config = [ConnectionMode |-> "direct_tcp", AuthEnabled |-> TRUE, AuthToken |-> "tok"]
    /\ tokenValid = TRUE
    /\ quota = NoQuota

NextRestart ==
    \/ TcpRun
    \/ TcpValidate
    \/ TcpCheckLimit
    \/ CreateTCPTunnel
    \/ DtRegister
    \/ StartLock
    \/ StartDial
    \/ StartHandshake
    \/ StartReply
    \/ \E who \in {"start", "control"} : AdoptPort(who)
    \/ StartFinish
    \/ DtRegisterFinish
    \/ SetPortChangeCallback
    \/ ControlHandshake
    \/ ControlLost
    \/ ControlStop
    \/ StopWatcher
    \/ Stop
    \/ StartAgain
    \/ \E i \in 1..MaxStarts : OldStopWatcher(i)
    \/ \E i \in 1..MaxStarts : OldControlStop(i)

SpecRestart == InitRestart /\ [][NextRestart]_vars

\* The tcp command in Direct-TCP mode, for every --local-addr and local port.
InitTarget ==
    /\ InitBase
    /\ tunnelConfig \in [LocalAddr : LocalAddrs, LocalPort : TunnelLocalPorts]
    /\ cmd = "tcp" /\ repoKind = "direct_tcp" /\ userPort = 20000
    /\ config = [ConnectionMode |-> "direct_tcp", AuthEnabled |-> TRUE, AuthToken |-> "tok"]
    /\ tokenValid = TRUE
    /\ quota = NoQuota

NextTarget ==
    \/ TcpRun
    \/ TcpValidate
    \/ TcpCheckLimit
    \/ CreateTCPTunnel
    \/ DtRegister
    \/ StartLock
    \/ StartDial
    \/ StartHandshake
    \/ StartReply
    \/ \E who \in {"start", "control"} : AdoptPort(who)
    \/ StartFinish
    \/ DtRegisterFinish
    \/ SetPortChangeCallback
    \/ ControlHandshake
    \/ ControlLost

SpecTarget == InitTarget /\ [][NextTarget]_vars

\* ----------------------------------------------------------------- claims
IsPrefix(a, b) == Len(a) <= Len(b) /\ a = SubSeq(b, 1, Len(a))

DataFrames(ls) == {i \in 1..Len(wire) : wire[i].type = "data" /\ wire[i].ls = ls}

\* C1: for every connection, the data frames written to the session carry the
\* chunks of its local socket in the order in which the forwarder read them.
LocalToServerOrder ==
    \A ls \in Locals : \A i, j \in DataFrames(ls) :
        i < j => wire[i].chunk < wire[j].chunk

\* C2: the bytes written to a local socket are always a prefix of the
\* concatenation, in arrival order, of the payloads routed to it: nothing is
\* written twice and nothing is written after a payload that was not
\* delivered in full.
ByteFidelity ==
    \A ls \in Locals : IsPrefix(localWritten[ls], accepted[ls])

\* C5: while the process runs, the reconnect supervisor is at its loop and
\* the mutex it needs is not held by a goroutine that never releases it.
SupervisorNeverHangs ==
    (Running /\ supPc # "off") => (supPc = "loop" /\ mutexHeld = "free")

\* C6: after a Connect of the supervisor failed because the validator rejected
\* the token, the supervisor calls Connect no more.
NoConnectAfterRejection == supAfterReject = 0

\* C7: every data frame of a connection is written to the session on which
\* the connection was created.
ConnectionIdsSessionScoped ==
    \A ls \in Locals : \A i \in DataFrames(ls) : wire[i].sock = connSession[ls]

\* C8: on every session socket, the timestamps of the frames written are
\* non-decreasing in the order of writing.
TimestampsMonotone ==
    \A i, j \in 1..Len(wire) :
        (i < j /\ wire[i].sock = wire[j].sock) => wire[i].ts <= wire[j].ts

\* C3: when Start has read CONNECTED:N with N different from the port it
\* requested, it can carry out the adoption of N (it is not blocked), after
\* which it completes.
PortAdoptionProceeds ==
    mainPc = "dt_adopt" => ENABLED AdoptPort("start")

\* C4: when Start restarts the handshake after an ERROR reply, the restarted
\* Start can enter (it is not blocked), so that Start terminates.
ErrorRetryRestarts ==
    (mainPc = "dt_start" /\ Contains(dtReply, W("ERROR"))) => ENABLED StartLock

\* C9: a command that ends with the quota error has performed no network
\* action but the token validation.
QuotaOnlyValidates ==
    exitReason = "quota" => net \subseteq {"validate"}

\* C10: the tcp command with an empty token never gets past its token check,
\* performs no network action, and ends with exit status 1 at that check,
\* whatever auth_enabled is.
EmptyTokenTcpRefused ==
    (cmd = "tcp" /\ config.AuthToken = "") =>
        /\ net = {}
        /\ mainPc \in {"run", "exited"}
        /\ mainPc = "exited" => (exited = "exit1" /\ exitReason = "no_token")

\* The tcp command has refused an empty token with auth_enabled off.
EmptyTokenTcpRefusedWitness ==
    /\ cmd = "tcp" /\ config.AuthToken = "" /\ ~config.AuthEnabled
    /\ exited = "exit1" /\ exitReason = "no_token"

\* C11: the tcp command starts its Direct-TCP tunnel, and opens a Direct-TCP
\* connection, only after the validator has answered its token with status
\* success and code 200, whatever auth_enabled is.
DirectStates == {"dt_register", "dt_start", "dt_listen", "dt_write", "dt_reply",
                 "dt_adopt", "dt_finish", "dt_started", "tcp_callback"}

TcpAlwaysValidates ==
    (cmd = "tcp" /\ (mainPc \in DirectStates \/ "dt_dial" \in net \/ ctlPc # "off")) =>
        /\ "validate" \in net
        /\ authResponse.status = "success" /\ authResponse.code = 200

\* The tcp command with auth_enabled off has opened its Direct-TCP connection.
TcpAlwaysValidatesWitness ==
    /\ cmd = "tcp" /\ ~config.AuthEnabled
    /\ "dt_dial" \in net /\ dtConnection = "open"

\* C12: at every instant a connection id has at most one open local socket
\* and at most one running forwarder, and its registry entry is the socket
\* of a forwarder that has not finished; once a forwarder has seen the end
\* of its socket (it is about to run its deferred function), the socket gets
\* closed and the entry stops referring to it.
FwdAlive(ls) == fwd[ls].pc \notin {"none", "done"}

RegistryOnePerId ==
    \A c \in ConnIds :
        /\ Cardinality({ls \in Locals : fwd[ls].cid = c /\ localOpen[ls]}) <= 1
        /\ Cardinality({ls \in Locals : fwd[ls].cid = c /\ FwdAlive(ls)}) <= 1
        /\ connections[c] # 0 =>
              /\ fwd[connections[c]].cid = c
              /\ FwdAlive(connections[c])

NoWriteAfterFailedWrite ==
    \A s \in failedSocks : ~(isConnected /\ conn = s)

\* After a failed write a later Connect has opened another socket and a
\* frame other than the auth message has been sent on it.
NoWriteAfterFailedWriteWitness ==
    /\ failedSocks # {}
    /\ isConnected /\ conn # 0 /\ conn \notin failedSocks
    /\ \E i \in 1..Len(wire) : wire[i].sock = conn /\ wire[i].type # "auth"

\* C14: a session socket on which a write failed is closed by the time the
\* client has given it up, that is when its read pump has ended and the
\* client holds another socket.
FailedSocketClosed ==
    \A s \in failedSocks :
        (conn # s /\ \A q \in Socks : pump[q].sock # s) => s \in closedSocks

\* C15: a ping frame is written only while the client is connected, on the
\* socket of the session; and as long as no socket has an I/O error, no step
\* clears the connected flag or closes a socket, however long the server
\* stays silent.
NoPongTimeout ==
    [][/\ (Len(wire') = Len(wire) + 1 /\ wire'[Len(wire')].type = "ping") =>
              (isConnected /\ conn # 0 /\ wire'[Len(wire')].sock = conn)
       /\ broken = {} =>
              /\ isConnected => isConnected'
              /\ closedSocks' = closedSocks]_vars

\* All pings of the run were sent, time has passed to the end, the server
\* never sent a pong, and the session is still connected and open.
NoPongTimeoutWitness ==
    /\ pings = MaxCount /\ clock = MaxClock
    /\ Cardinality({i \in 1..Len(wire) : wire[i].type = "ping"}) = MaxCount
    /\ broken = {} /\ isConnected /\ conn \notin closedSocks

\* C16: with auth enabled, every frame on the wire of a socket is preceded
\* on that socket by the auth message, which is the first frame of the
\* socket: no sender that runs while Connect is in progress writes before it.
FirstFrame(s) == CHOOSE i \in 1..Len(wire) :
                    wire[i].sock = s /\ \A j \in 1..(i - 1) : wire[j].sock # s

AuthFirst ==
    config.AuthEnabled =>
        \A s \in Socks :
            (\E i \in 1..Len(wire) : wire[i].sock = s) => wire[FirstFrame(s)].type = "auth"

\* The supervisor has opened the second session while senders were running,
\* and that socket carries the auth message followed by a frame of a sender.
AuthFirstWitness ==
    /\ config.AuthEnabled /\ nextSock = 2
    /\ \E i, j \in 1..Len(wire) :
          /\ i < j /\ wire[i].sock = 2 /\ wire[j].sock = 2
          /\ wire[i].type = "auth" /\ wire[j].type \in {"data", "ping"}

\* C17: while the process runs, SendRegisterTunnel is never stuck: its
\* installation of the handlers and its send can take the client mutex (the
\* wait that follows them ends with the timeout at the latest).
RegisterRpcReturns ==
    Running => /\ mainPc = "reg_install" => ENABLED RegInstall
               /\ mainPc = "reg_send" => ENABLED RegSend
               /\ mainPc = "reg_wait" => ENABLED RegWait

\* C18: a register RPC that takes a response from its channel takes a
\* response that the server sent for the request of that RPC, the last
\* register frame written.
LastRegister == CHOOSE i \in 1..Len(wire) :
                    wire[i].type = "register" /\ \A j \in (i + 1)..Len(wire) :
                                                      wire[j].type # "register"

RegisterResponseMatches ==
    [][(mainPc = "api_wait" /\ responseCh # <<>> /\ responseCh' = Tail(responseCh)) =>
            Head(responseCh).req = LastRegister]_vars

\* C19: when Unregister(id) has returned, with or without an error, the
\* tunnel record id is not in the registry.
UnregisterRemoves ==
    mainPc = "unreg_returned" => TunnelId \notin tunnels

\* C20: no request id has two http_response frames, and a handler that
\* responds while the session is connected writes exactly one frame, an
\* http_response with the id of its request which, when the local request
\* failed, has status 500 and the error string.
HTTPResponses(id) == {i \in 1..Len(wire) : wire[i].type = "http_response" /\ wire[i].id = id}

Responds(p) == pump[p].pc = "h_http" /\ pump'[p].pc # "h_http"

OneHTTPResponse ==
    /\ [](\A id \in 1..MaxInbound : Cardinality(HTTPResponses(id)) <= 1)
    /\ [][\A p \in Socks :
            (Responds(p) /\ isConnected /\ conn # 0 /\ conn \notin broken) =>
                /\ Len(wire') = Len(wire) + 1
                /\ LET f == wire'[Len(wire')] IN
                   /\ f.type = "http_response" /\ f.id = pump[p].req /\ f.sock = conn
                   /\ pump[p].outcome # "answered" =>
                         (f.status = 500 /\ f.error = pump[p].outcome)]_vars

\* Two requests were handled on the connected session, the first with a
\* failure of the local request: each has its own response.
OneHTTPResponseWitness ==
    /\ isConnected /\ conn \notin broken
    /\ \E i, j \in 1..Len(wire) :
          /\ i < j
          /\ wire[i].type = "http_response" /\ wire[i].id = 1 /\ wire[i].status = 500
          /\ wire[i].error = "do"
          /\ wire[j].type = "http_response" /\ wire[j].id = 2 /\ wire[j].error = ""

\* C21: the HTML rewriter applied to its own output gives that output.
RewriteIdempotent ==
    html.passes = MaxPasses => html.twice = html.once

\* C22: when CloseTunnel(id) has returned, the repository does not hold the
\* tunnel id: GetTunnelByID(id) fails and GetAllTunnels does not list it.
CloseTunnelRemoves ==
    (closeId # "" /\ mainPc \in {"unreg_returned", "close_notfound"}) => closeId \notin tunnels

\* C23: once Stop has returned, the connection of the control loop is not
\* open, and no CONNECT request has been served after the tunnel was stopped.
StopCancels ==
    /\ (stopped /\ mainPc = "dt_stopped") => controlConn # "open"
    /\ \A i \in 1..Len(served) : ~served[i]

\* C24: when no register RPC is in progress, no register handler and no error
\* handler is registered on the client.
RegisterHandlersScoped ==
    mainPc = "api_idle" => handlers \cap {"register", "error"} = {}

\* C25: no read pump stays blocked inside the handler of a register or error
\* frame: a handler waits in its send only while a register RPC is there to
\* receive from the channel.
PumpNeverBlocksInHandler ==
    \A p \in Socks : /\ pump[p].pc # "stuck"
                      /\ pump[p].pc = "blocked" => mainPc \in {"api_wait", "reg_wait"}

\* C26: a Connect whose auth frame could not be written has released the
\* client mutex and left the client not connected with its socket closed.
AuthFailureReturns ==
    (mainPc = "blocked" \/ supPc = "blocked") =>
        (mutexHeld = "free" /\ ~isConnected /\ conn \in closedSocks \cup {0})

\* The read pump p is in ReadMessage.
Reading(p) == pump[p].pc = "read"

\* C27: no two read pumps read from the same socket, and the supervisor and
\* the keepalive run only when RunWithReconnect has set the reconnecting flag.
OneTaskEach ==
    /\ \A p, q \in Socks : (p # q /\ Reading(p) /\ Reading(q)) => pump[p].sock # pump[q].sock
    /\ (supPc # "off" \/ kaPc # "off") => reconnecting

\* A register frame for the tunnel was written on socket s.
RegisteredOn(s) == \E i \in 1..Len(wire) : wire[i].type = "register" /\ wire[i].sock = s

\* C28: when a Connect of the supervisor has returned with a new session
\* established while the registry holds the tunnel, the tunnel is eventually
\* registered on that session, unless the session is lost or the tunnel is
\* removed before.
TunnelsSurviveReconnect ==
    (isConnected /\ conn # 1 /\ supPc = "loop" /\ mutexHeld = "free" /\ TunnelId \in tunnels)
        ~> (~isConnected \/ TunnelId \notin tunnels \/ RegisteredOn(conn))

\* C29: a frame that is not what the protocol expects does not end the read
\* pump: no read pump panics and the process keeps running.
MalformedFramesDropped ==
    ~crashed /\ \A p \in Socks : pump[p].pc # "panic"

\* C30: Register changes the registry only when its RPC took a response with
\* success = true, and then the record of the tunnel is stored with the URL of
\* the response for an HTTP tunnel and with the remote port of the response
\* for a TCP tunnel; a Register whose RPC took such a response stores the
\* record.  A failed Connect, a failed send, a response without success, an
\* error frame and the timeout leave the registry as it was.
RegisterStoresOnSuccess ==
    [][LET response == Head(responseCh) IN
       /\ (tunnels' # tunnels \/ tunnelInfo' # tunnelInfo) =>
             /\ mainPc = "api_wait" /\ responseCh # <<>> /\ response.success
             /\ tunnels' = tunnels \cup {TunnelId}
             /\ tunnelInfo'.type = regType
             /\ regType = "http" => tunnelInfo'.url = response.url
             /\ regType = "tcp" => tunnelInfo'.remotePort = response.port
       /\ (mainPc = "api_wait" /\ mainPc' = "api_idle" /\ responseCh' # responseCh
              /\ response.success) =>
             (TunnelId \in tunnels' /\ tunnelInfo' # NoTunnel)]_vars

RegisterStoresOnSuccessWitness ==
    /\ TunnelId \in tunnels
    /\ tunnelInfo.type = "tcp" /\ tunnelInfo.remotePort \in {ResponsePort(i) : i \in 1..Len(wire)}
    /\ mainPc = "api_idle"

\* The step in which the handler of read pump p gives up writing a payload
\* to an open local socket: the write after the last retry fails too.
WriteGivenUp(p) ==
    /\ pump[p].pc = "h_write" /\ pump[p].attempt >= maxRetries
    /\ pump'[p].pc # "h_write"
    /\ localOpen[pump[p].ls]
    /\ Len(localWritten'[pump[p].ls]) - Len(localWritten[pump[p].ls]) < Len(pump[p].data)

\* C31: when the write of a data payload to a local socket still fails after
\* the retries are exhausted, the local socket is closed and the entry of the
\* connection is removed from the registry.
PersistentWriteFailureCloses ==
    [][\A p \in Socks : WriteGivenUp(p) =>
          (~localOpen'[pump[p].ls] /\ connections'[pump[p].cid] = 0)]_vars

\* The step in which the dial loop of the handler of read pump p ends.
DialEnds(p) == pump[p].pc = "h_dial" /\ pump'[p].pc # "h_dial"

\* The step in which read pump p takes a data frame with an unseen
\* connection id whose tunnel the registry does not hold.
UnknownTunnelFrame(p) ==
    /\ pump[p].pc = "read" /\ pump'[p] # pump[p]
    /\ inbox[pump[p].sock] # <<>>
    /\ Head(inbox[pump[p].sock]).type = "data"
    /\ connections[Head(inbox[pump[p].sock]).cid] = 0
    /\ Head(inbox[pump[p].sock]).tid \notin tunnels

StartReturnsError ==
    /\ mainPc \in {"dt_listen", "dt_write", "dt_reply"}
    /\ exited' = "exit1" /\ exitReason' = "create"

\* C33: when Start fails, no control loop is started and the tunnel keeps
\* neither a listener nor a connection, so that the next Start does not find
\* it running.
FailedStartReleases ==
    [][StartReturnsError =>
          (ctlPc' = "off" /\ ~dtListener' /\ dtConnection' = "nil")]_vars

\* The positions of the steps of kind k in the log of the control connection.
LogSteps(k) == {i \in 1..Len(ctlLog) : ctlLog[i][1] = k}

\* The request of the log names a host and a port, and the dial succeeded.
ConnectSucceeded ==
    /\ ctlLog[1][2][1] = "CONNECT" /\ Len(ctlLog[1][2]) >= 3
    /\ \E i \in LogSteps("dial") : ctlLog[i][3]

\* C34: for the request read on a control connection exactly one reply is
\* written: OK when the request is a CONNECT with host and port and the dial
\* succeeded, ERROR otherwise; the connections are spliced only after OK was
\* written, and nothing is written when no request was read.
OneReplyPerRequest ==
    /\ LogSteps("read") = {} => ctlLog = <<>>
    /\ LogSteps("read") # {} =>
          /\ LogSteps("read") = {1}
          /\ Cardinality(LogSteps("write")) = 1
          /\ \A i \in LogSteps("write") :
                ctlLog[i][2] = (IF ConnectSucceeded THEN "OK" ELSE "ERROR")
          /\ \A j \in LogSteps("splice") :
                \E i \in LogSteps("write") : i < j /\ ctlLog[i][2] = "OK"

OneReplyPerRequestWitness ==
    /\ ctlPc = "dial" /\ controlConn = "closed" /\ ~stopped
    /\ LogSteps("splice") # {}
    /\ ctlRounds >= 1

\* C35: in response to a CONNECT request the client dials only the target
\* address of the tunnel.
DialsOnlyTarget == \A i \in LogSteps("dial") : ctlLog[i][2] = targetAddr

\* A step of the control loop that ends a round without a served connection
\* in progress: the dial, the write or the read of the registration failed,
\* the reply was unexpected, or the served connection ended.
ControlFailure ==
    /\ ctlPc \in {"dial", "serving"}
    /\ ctlRounds' # ctlRounds \/ ctlPc = "serving"
    /\ ctlPc' \notin {"adopt", "serving"}

\* C36: while the tunnel is not stopped every failure of the control loop
\* leaves the loop at its next registration attempt, and the loop ends only
\* when the tunnel is stopped.
ControlLoopPersists ==
    [][/\ (ControlFailure /\ ~stopped) => ctlPc' = "dial"
       /\ (ctlPc # "ended" /\ ctlPc' = "ended") => stopped]_vars

ControlLoopPersistsWitness ==
    /\ ~stopped /\ ctlPc = "dial" /\ controlConn = "closed"
    /\ ctlRounds >= 2 /\ ctlLog # <<>>

\* The control-loop tasks and the stop-watcher tasks of the tunnel.
ControlLoops ==
    (IF LoopAlive THEN 1 ELSE 0) + Cardinality({i \in 1..Len(oldTasks) : oldTasks[i].loop})
StopWatchers ==
    (IF WatcherAlive THEN 1 ELSE 0)
    + Cardinality({i \in 1..Len(oldTasks) : oldTasks[i].watcher})

\* C37: at any time the tunnel has at most one control-loop task and at most
\* one stop-watcher task.
OneLoopOneWatcher == ControlLoops <= 1 /\ StopWatchers <= 1

\* directTunnelRepository.GetByID: the record built from the DirectTunnel.
DirectGetByID ==
    [LocalAddr |-> targetAddr[1], LocalPort |-> localPort, RemotePort |-> remotePort]

\* C38: for a registered TCP tunnel created with local_addr A and local_port
\* P the target address of the tunnel is A:P, and the record that GetByID
\* returns reports local_addr A and local_port P.
TargetIsLocalAddr ==
    mainPc \in {"dt_started", "tcp_callback", "serving"} =>
        /\ targetAddr = <<tunnelConfig.LocalAddr, tunnelConfig.LocalPort>>
        /\ DirectGetByID.LocalAddr = tunnelConfig.LocalAddr
        /\ DirectGetByID.LocalPort = tunnelConfig.LocalPort

\* C39: the request issued to the local service uses scheme http and carries
\* X-Forwarded-Proto equal to the scheme of the original request,
\* X-Forwarded-Host equal to its Host header and X-Forwarded-For equal to its
\* remote address.
ForwardedHeaders ==
    localRequest.sent.set =>
        /\ localRequest.sent.Scheme = "http"
        /\ localRequest.sent.Headers["X-Forwarded-Proto"] = <<localRequest.request.Scheme>>
        /\ localRequest.sent.Headers["X-Forwarded-Host"]
              = <<HeaderGet(localRequest.request.Headers, "Host")>>
        /\ localRequest.sent.Headers["X-Forwarded-For"] = <<localRequest.request.RemoteAddr>>

\* C40: every remote port that the client picks itself, at Register when the
\* configured remote port is 0 and in Start after an ERROR reply, lies in
\* [10000, 30000).
RandomPortInRange ==
    [][/\ (mainPc = "dt_register" /\ mainPc' = "dt_start" /\ userPort = 0)
             => (configPort' >= 10000 /\ configPort' < 30000)
       /\ (mainPc = "dt_reply" /\ mainPc' = "dt_start")
             => (remotePort' >= 10000 /\ remotePort' < 30000)]_vars

====
